---------------------------- MODULE Spec2Model ----------------------------
(***************************************************************************)
(* Model of the evaluation orchestrator of the LLM evaluation platform     *)
(* (backend_new/app/services/evaluation_service.py): the framework         *)
(* registry, the concurrent fan-out of evaluate_single, the batched        *)
(* evaluate_bulk, and compare_models with _determine_winner.               *)
(*                                                                         *)
(* Python values are tagged records ([t |-> "none"], [t |-> "num", ...]),  *)
(* Python dicts are functions from string keys to tagged values.  Scores   *)
(* are integers in units of 1/Scale; a mean is kept as the pair            *)
(* <<sum, count>> and compared by cross-multiplication.                    *)
(***************************************************************************)
EXTENDS Integers, Sequences, FiniteSets, TLC

(***************************************************************************)
(* Bounds                                                                  *)
(***************************************************************************)
\* metric values are 0/Scale .. Scale/Scale
Scale == 1
\* response times of a successful generation, in seconds: 1..MaxTime
MaxTime == 2
\* number of models passed to compare_models: 0..MaxModels
MaxModels == 2
\* number of items passed to evaluate_bulk: 0..MaxItems
MaxItems == 3
\* batch_size passed to evaluate_bulk: 1..MaxBatch
MaxBatch == 2
\* number of lexemes of a candidate or a reference given to a scorer: 0..MaxLen
MaxLen == 4
\* number of lexemes of an answer given to the metrics engine: 0..MaxAnswerLen
MaxAnswerLen == 3

(***************************************************************************)
(* Python values                                                           *)
(***************************************************************************)
NoneV == [t |-> "none"]
Num(n) == [t |-> "num", v |-> n]
Str(s) == [t |-> "str", v |-> s]
Dict(f) == [t |-> "dict", v |-> f]
Exc(type, msg) == [t |-> "exc", type |-> type, msg |-> msg]

EmptyDict == <<>>

\* isinstance(x, Exception)
IsException(x) == x.t = "exc"
\* isinstance(x, dict)
IsDict(x) == x.t = "dict"
\* isinstance(x, (int, float)) and x is not None  (no modelled value is a
\* bool, which Python would accept here as well)
IsNumber(x) == x.t = "num"

\* dict.update(other)
DictUpdate(d, other) ==
    [k \in (DOMAIN d) \cup (DOMAIN other) |->
        IF k \in DOMAIN other THEN other[k] ELSE d[k]]

\* d[key] = value
DictSet(d, key, value) ==
    [k \in (DOMAIN d) \cup {key} |-> IF k = key THEN value ELSE d[k]]

(***************************************************************************)
(* The framework registry (EvaluationService._load_evaluators)             *)
(***************************************************************************)
\* the optional frameworks in the order _load_evaluators tries them
OptionalFrameworks == <<"ragas", "deepeval", "custom">>

RECURSIVE LoadFrom(_, _, _, _)
\* Steps k.. of _load_evaluators.  enable[f] is settings.ENABLE_<f>,
\* imports[f] tells whether "from app.evaluators.<f>_evaluator import ..."
\* succeeds (the import of basic_evaluator, a module of the repository that
\* needs the standard library only, always does).  The single try/except around the whole body ends the loading
\* at the first import that raises.
LoadFrom(k, enable, imports, acc) ==
    IF k > Len(OptionalFrameworks)
    THEN Append(acc, "basic")
    ELSE LET f == OptionalFrameworks[k] IN
         IF ~enable[f] THEN LoadFrom(k + 1, enable, imports, acc)
         ELSE IF imports[f] THEN LoadFrom(k + 1, enable, imports, Append(acc, f))
         ELSE acc

\* the key order of self.evaluators after __init__
load_evaluators(enable, imports) == LoadFrom(1, enable, imports, <<>>)

OptionalNames == { OptionalFrameworks[k] : k \in DOMAIN OptionalFrameworks }

\* every registry some configuration and some set of installed plug-ins gives
Registries ==
    { load_evaluators(en, im) :
        en \in [OptionalNames -> BOOLEAN], im \in [OptionalNames -> BOOLEAN] }

\* what the get_available_metrics of a plug-in evaluator may return (a
\* plug-in without the method is listed with no metric, line 457)
PluginMetricLists == { <<>>, <<"score">> }

(***************************************************************************)
(* The environment: what generation and the frameworks produce             *)
(***************************************************************************)
\* a value of a result dict: a score, None, or a nested metric result
\* ({"score": ..., "reason": ...}, the shape of the DeepEval-style results)
NestedResult == Dict([k \in {"score", "reason"} |->
                        IF k = "score" THEN Num(Scale) ELSE Str("passed")])
MetricValues == { Num(n) : n \in 0..Scale } \cup { NoneV, NestedResult }

\* the dicts a framework may return
ResultDicts == { [k \in {"score"} |-> x] : x \in MetricValues }

\* the outcome of one evaluator.evaluate / evaluate_async call: it returns a
\* dict, returns something that is no dict (None), or raises
FrameworkOutcomes ==
    { Dict(d) : d \in ResultDicts } \cup { NoneV }
        \cup { Exc("RuntimeError", "framework failed") }

\* _calculate_cost: a cost for a model of the pricing map, None otherwise
Costs == { Num(1), NoneV }

\* the outcome of generate_llm_response: (content, metadata) or an
\* OpenRouterException
GenerationOutcomes ==
    { [t |-> "ok", response_time |-> rt, cost |-> c] :
        rt \in 1..MaxTime, c \in Costs }
        \cup { Exc("OpenRouterException", "generation failed") }

(***************************************************************************)
(* EvaluationService._run_evaluations: processing of the gathered results  *)
(***************************************************************************)
\* mutant: every framework's result is merged into automatic_metrics
FoldsEveryFramework(framework_name) == TRUE

\* line 186: only the basic framework's result is merged into
\* automatic_metrics
FoldsIntoAutomatic(framework_name) == framework_name = "basic"

RECURSIVE ProcessResults(_, _, _, _)
\* The loop of lines 176-187 from index i on.  acc holds automatic_metrics
\* and framework_scores; the value is acc at the end of the loop, or the
\* TypeError that automatic_metrics.update raises on a non-mapping.
ProcessResults(registry, framework_results, i, acc) ==
    IF i > Len(registry) THEN acc
    ELSE LET framework_name == registry[i]
             result == framework_results[i]
         IN IF IsException(result)
            THEN ProcessResults(registry, framework_results, i + 1,
                    [acc EXCEPT !.framework_scores =
                        DictSet(@, framework_name,
                                Dict([k \in {"error"} |-> Str(result.msg)]))])
            ELSE IF FoldsIntoAutomatic(framework_name)
                 THEN IF IsDict(result)
                      THEN ProcessResults(registry, framework_results, i + 1,
                              [acc EXCEPT
                                 !.framework_scores = DictSet(@, framework_name, result),
                                 !.automatic_metrics = DictUpdate(@, result.v)])
                      ELSE Exc("TypeError", "'NoneType' object is not iterable")
                 ELSE ProcessResults(registry, framework_results, i + 1,
                         [acc EXCEPT !.framework_scores =
                             DictSet(@, framework_name, result)])

\* mutant: a framework's exception is re-raised by the processing loop
RunEvaluationsReraise(registry, framework_results) ==
    IF \E i \in DOMAIN framework_results : IsException(framework_results[i])
    THEN framework_results[CHOOSE i \in DOMAIN framework_results :
                               IsException(framework_results[i])]
    ELSE ProcessResults(registry, framework_results, 1,
            [t |-> "ok", automatic_metrics |-> EmptyDict, framework_scores |-> EmptyDict])

\* the value _run_evaluations returns (or the exception it raises) once
\* asyncio.gather has delivered framework_results
run_evaluations(registry, framework_results) ==
    ProcessResults(registry, framework_results, 1,
        [t |-> "ok", automatic_metrics |-> EmptyDict, framework_scores |-> EmptyDict])

\* mutant: a framework whose evaluation failed is taken out of the registry
RegistryWithoutFailed(registry, framework_results) ==
    LET indexes == [i \in 1..Len(registry) |-> i]
        kept == SelectSeq(indexes, LAMBDA i : ~IsException(framework_results[i]))
    IN [j \in 1..Len(kept) |-> registry[kept[j]]]

\* self.evaluators after a run of _run_evaluations over it: line 164 reads
\* self.evaluators.items() and lines 176-190 write the local `results` only
RegistryAfterRun(registry, framework_results) == registry

(***************************************************************************)
(* asyncio.gather with return_exceptions=True                              *)
(***************************************************************************)
Running == [st |-> "running"]
Done(result) == [st |-> "done", result |-> result]
AllDone(tasks) == \A i \in DOMAIN tasks : tasks[i].st = "done"
Pending == [t |-> "pending"]

\* mutant: gather without return_exceptions, which raises the first
\* exception of a task as soon as it occurs
GatherFailFast(tasks) ==
    IF \E i \in DOMAIN tasks : tasks[i].st = "done" /\ IsException(tasks[i].result)
    THEN LET i == CHOOSE j \in DOMAIN tasks :
                      tasks[j].st = "done" /\ IsException(tasks[j].result)
         IN tasks[i].result
    ELSE IF AllDone(tasks)
         THEN [t |-> "list", v |-> [i \in DOMAIN tasks |-> tasks[i].result]]
         ELSE Pending

\* what the await of gather delivers: nothing while a task is running, then
\* the list of the tasks' results and exceptions, in task order
Gather(tasks) ==
    IF AllDone(tasks)
    THEN [t |-> "list", v |-> [i \in DOMAIN tasks |-> tasks[i].result]]
    ELSE Pending

(***************************************************************************)
(* EvaluationService.evaluate_single                                       *)
(***************************************************************************)
\* d.get(key, default)
DictGet(d, key, default) == IF key \in DOMAIN d THEN d[key] ELSE default

ErrorResponse == Str("Error generating response")
GeneratedResponse == Str("generated text")

\* lines 70-86: (model_response, response_metadata) after the generation
\* step.  Generation is attempted only when model_name and prompt are
\* non-empty; its failure is caught and replaced by a placeholder response.
GenerationStep(evaluation_data, generation) ==
    IF evaluation_data.model_name # "" /\ evaluation_data.prompt # ""
    THEN IF IsException(generation)
         THEN [model_response |-> ErrorResponse,
               response_metadata |-> [k \in {"error"} |-> Str(generation.msg)]]
         ELSE [model_response |-> GeneratedResponse,
               response_metadata |->
                   [k \in {"response_time", "cost"} |->
                       IF k = "cost" THEN generation.cost
                       ELSE Num(generation.response_time)]]
    ELSE [model_response |-> NoneV, response_metadata |-> EmptyDict]

\* lines 98-151: the result compiled from the generation step and the value
\* (or exception) of _run_evaluations; any exception becomes an
\* EvaluationException carrying its message.  Of the result's fields, those
\* that are copies of the request or clock readings (id, context, category,
\* processing_time, timestamps) are left out; model_metadata is
\* metadata["model_metadata"].
CompileResult(evaluation_data, gen, evaluation_results) ==
    IF IsException(evaluation_results)
    THEN Exc("EvaluationException", "Evaluation failed: " \o evaluation_results.msg)
    ELSE [t |-> "dict",
          session_id |-> evaluation_data.session_id,
          prompt |-> evaluation_data.prompt,
          model_name |-> evaluation_data.model_name,
          model_response |-> gen.model_response,
          status |-> "completed",
          automatic_metrics |-> evaluation_results.automatic_metrics,
          framework_scores |-> evaluation_results.framework_scores,
          response_time |-> DictGet(gen.response_metadata, "response_time", Num(0)),
          cost |-> DictGet(gen.response_metadata, "cost", NoneV),
          model_metadata |-> gen.response_metadata]

\* one whole evaluate_single call, given what generation and each framework
\* (in registry order) produce
evaluate_single(evaluation_data, registry, generation, framework_results) ==
    CompileResult(evaluation_data,
                  GenerationStep(evaluation_data, generation),
                  run_evaluations(registry, framework_results))

\* EvaluationCreate(...): pydantic rejects an empty prompt (min_length=1)
ValidEvaluationCreate(prompt) == prompt # ""

EvaluationCreate(session_id, prompt, model_name) ==
    [session_id |-> session_id, prompt |-> prompt, model_name |-> model_name]

(***************************************************************************)
(* EvaluationService._determine_winner                                     *)
(***************************************************************************)
RECURSIVE SumNumbers(_, _)
\* sum of the numeric values of dict d over the keys ks
SumNumbers(d, ks) ==
    IF ks = {} THEN 0
    ELSE LET k == CHOOSE x \in ks : TRUE
         IN (IF IsNumber(d[k]) THEN d[k].v ELSE 0) + SumNumbers(d, ks \ {k})

\* mutant: null and text values are counted as scores
CountAllKeys(d) == Cardinality(DOMAIN d)

CountNumbers(d) == Cardinality({ k \in DOMAIN d : IsNumber(d[k]) })

RECURSIVE FrameworkTotals(_, _)
\* <<sum, count>> of the numeric values of the framework entries that are
\* dicts (lines 414-418)
FrameworkTotals(framework_scores, fs) ==
    IF fs = {} THEN <<0, 0>>
    ELSE LET f == CHOOSE x \in fs : TRUE
             rest == FrameworkTotals(framework_scores, fs \ {f})
             scores == framework_scores[f]
         IN IF IsDict(scores)
            THEN <<rest[1] + SumNumbers(scores.v, DOMAIN scores.v),
                   rest[2] + CountNumbers(scores.v)>>
            ELSE rest

\* lines 402-421: overall_score of one comparison as the fraction
\* <<sum(all_scores), len(all_scores)>>, <<0, 1>> when all_scores is empty
overall_score(comparison) ==
    LET metrics == comparison.metrics
        ft == FrameworkTotals(comparison.framework_scores,
                              DOMAIN comparison.framework_scores)
        total == SumNumbers(metrics, DOMAIN metrics) + ft[1]
        count == CountNumbers(metrics) + ft[2]
    IN IF count = 0 THEN <<0, 1>> ELSE <<total, count>>

\* lines 423-428
ModelScore(comparison) ==
    [model |-> comparison.model_name,
     score |-> overall_score(comparison),
     response_time |-> comparison.response_time.v,
     cost |-> IF IsNumber(comparison.cost) THEN comparison.cost.v ELSE 0]

\* a/b < c/d for fractions with positive denominators
FracLess(x, y) == x[1] * y[2] < y[1] * x[2]
FracEq(x, y) == x[1] * y[2] = y[1] * x[2]

\* mutant: the response time is left out of the sort key
KeyLessIgnoresTime(a, b) ==
    \/ FracLess(b.score, a.score)
    \/ /\ FracEq(a.score, b.score)
       /\ a.cost < b.cost

\* key(a) < key(b) for key = (-score, response_time, cost)  (line 434)
KeyLess(a, b) ==
    \/ FracLess(b.score, a.score)
    \/ /\ FracEq(a.score, b.score)
       /\ \/ a.response_time < b.response_time
          \/ /\ a.response_time = b.response_time
             /\ a.cost < b.cost

RECURSIVE InsertBeforeEqual(_, _)
\* mutant: x inserted before the elements whose key is equal (the sort is
\* not stable)
InsertBeforeEqual(x, sorted) ==
    IF sorted = <<>> THEN <<x>>
    ELSE IF ~KeyLess(Head(sorted), x) THEN <<x>> \o sorted
    ELSE <<Head(sorted)>> \o InsertBeforeEqual(x, Tail(sorted))

RECURSIVE InsertSorted(_, _)
\* x inserted after every element whose key is not greater (a stable sort)
InsertSorted(x, sorted) ==
    IF sorted = <<>> THEN <<x>>
    ELSE IF KeyLess(x, Head(sorted)) THEN <<x>> \o sorted
    ELSE <<Head(sorted)>> \o InsertSorted(x, Tail(sorted))

RECURSIVE SortScores(_, _)
\* list.sort(key=...) of model_scores[i..], into acc
SortScores(model_scores, acc) ==
    IF model_scores = <<>> THEN acc
    ELSE SortScores(Tail(model_scores), InsertSorted(Head(model_scores), acc))

IsCompleted(c) == c.status = "completed"

\* lines 399-428: model_scores before the sort, one entry per successful
\* comparison
BuildModelScores(comparisons) ==
    LET successful_comparisons == SelectSeq(comparisons, IsCompleted)
    IN [i \in 1..Len(successful_comparisons) |->
           ModelScore(successful_comparisons[i])]

\* lines 434-448: the winner among a non-empty model_scores
WinnerOf(model_scores) ==
    LET sorted == SortScores(model_scores, <<>>)
        winner == sorted[1]
    IN [t |-> "dict",
        model |-> winner.model,
        reason |->
            IF Len(sorted) > 1
            THEN <<"Highest overall score", winner.score,
                   "points ahead of", sorted[2].model,
                   <<winner.score[1] * sorted[2].score[2]
                       - sorted[2].score[1] * winner.score[2],
                     winner.score[2] * sorted[2].score[2]>> >>
            ELSE <<"Highest overall score", winner.score>>]

\* mutant: no winner unless two models completed
DetermineWinnerNeedsTwo(comparisons) ==
    IF Len(SelectSeq(comparisons, IsCompleted)) < 2 THEN NoneV
    ELSE WinnerOf(BuildModelScores(comparisons))

\* the value _determine_winner returns: None or {"model", "reason"}
determine_winner(comparisons) ==
    IF SelectSeq(comparisons, IsCompleted) = <<>> THEN NoneV
    ELSE WinnerOf(BuildModelScores(comparisons))

(***************************************************************************)
(* EvaluationService.compare_models                                        *)
(***************************************************************************)
\* lines 339-356: the comparison entry made from one gathered result
ComparisonEntry(model, result) ==
    IF IsException(result)
    THEN [model_name |-> model, error |-> result.msg, status |-> "failed"]
    ELSE [model_name |-> model,
          response |-> result.model_response,
          metrics |-> result.automatic_metrics,
          framework_scores |-> result.framework_scores,
          response_time |-> result.response_time,
          cost |-> result.cost,
          status |-> "completed"]

\* mutant: a model whose evaluation raised gets no entry
BuildComparisonsDropFailed(model_names, gathered) ==
    LET kept == SelectSeq([i \in 1..Len(model_names) |-> i],
                          LAMBDA i : ~IsException(gathered[i]))
    IN [k \in 1..Len(kept) |-> ComparisonEntry(model_names[kept[k]], gathered[kept[k]])]

\* lines 338-356: comparisons built from the gathered results, in task order
BuildComparisons(model_names, gathered) ==
    [i \in 1..Len(model_names) |-> ComparisonEntry(model_names[i], gathered[i])]

(***************************************************************************)
(* Numbers of the metrics engine.  A Python float that the scorers compute *)
(* is a ratio of small integers; it is kept as the pair <<numerator,       *)
(* denominator>> in lowest terms with a positive denominator, so that two  *)
(* equal scores are equal values.                                          *)
(***************************************************************************)
Abs(n) == IF n < 0 THEN 0 - n ELSE n

RECURSIVE GCD(_, _)
GCD(a, b) == IF b = 0 THEN a ELSE GCD(b, a % b)

\* the float n / d
Rat(n, d) ==
    LET g == GCD(Abs(n), Abs(d))
        s == IF d < 0 THEN 0 - 1 ELSE 1
    IN <<(s * n) \div g, (s * d) \div g>>

Zero == <<0, 1>>
One == <<1, 1>>

RatAdd(x, y) == Rat(x[1] * y[2] + y[1] * x[2], x[2] * y[2])
RatSub(x, y) == Rat(x[1] * y[2] - y[1] * x[2], x[2] * y[2])
RatMul(x, y) == Rat(x[1] * y[1], x[2] * y[2])
RatDiv(x, y) == Rat(x[1] * y[2], x[2] * y[1])
RatAbs(x) == <<Abs(x[1]), x[2]>>
RatLe(x, y) == x[1] * y[2] <= y[1] * x[2]
RatLt(x, y) == x[1] * y[2] < y[1] * x[2]
RatMin(x, y) == IF RatLe(x, y) THEN x ELSE y
RatMax(x, y) == IF RatLe(x, y) THEN y ELSE x

\* bp * bleu_score of _calculate_bleu when every precision is positive:
\* exp(exponent) * radicand^(1/4) with exponent <= 0 and radicand two ratios.
\* The one value of that form that is a ratio is 1.0; any other is kept
\* symbolically as <<exponent[1], exponent[2], radicand[1], radicand[2]>>.
ExpRoot(exponent, radicand) ==
    IF exponent = Zero /\ radicand = One THEN One
    ELSE exponent \o radicand

\* whether a score is a ratio or of the symbolic form
IsRatio(x) == Len(x) = 2
Exponent(x) == <<x[1], x[2]>>
Radicand(x) == <<x[3], x[4]>>

(***************************************************************************)
(* Texts.  A Python str is Str(s) with s a sequence of lexemes: words and  *)
(* sentence terminators, written with single spaces between them ("The cat *)
(* . the dog" is <<"The", "cat", ".", "the", "dog">>, "" is <<>>).         *)
(***************************************************************************)
\* the characters of [.!?]
Terminators == {".", "!", "?"}

\* a lexeme matched by \w+
IsWord(lexeme) == lexeme \notin Terminators

\* str.lower() of a word
Lower(lexeme) ==
    CASE lexeme = "The" -> "the"
      [] lexeme = "Cat" -> "cat"
      [] lexeme = "However" -> "however"
      [] OTHER -> lexeme

\* a word matched by [A-Z][a-z]+
IsCapitalised(lexeme) == IsWord(lexeme) /\ Lower(lexeme) # lexeme

\* bool(x) of a context value: a str, None or a number
Truthy(x) ==
    CASE x.t = "str" -> x.v # <<>>
      [] x.t = "none" -> FALSE
      [] x.t = "num" -> x.v # 0
      [] OTHER -> TRUE

SetOf(seq) == { seq[i] : i \in DOMAIN seq }

RECURSIVE SumSeq(_)
\* sum(...) of a list of ratios
SumSeq(seq) == IF seq = <<>> THEN Zero ELSE RatAdd(Head(seq), SumSeq(Tail(seq)))

\* _tokenize: [] for a falsy text, the lowercased words of a str, and the
\* AttributeError of text.lower() for any other value
tokenize(text) ==
    IF ~Truthy(text) THEN <<>>
    ELSE IF text.t # "str"
         THEN Exc("AttributeError", "'int' object has no attribute 'lower'")
         ELSE LET words == SelectSeq(text.v, IsWord)
              IN [i \in DOMAIN words |-> Lower(words[i])]

\* whether _tokenize raises on this value
TokenizeRaises(text) == Truthy(text) /\ text.t # "str"

\* _get_ngrams
get_ngrams(tokens, n) ==
    IF Len(tokens) < n THEN <<>>
    ELSE [i \in 1..(Len(tokens) - n + 1) |-> SubSeq(tokens, i, i + n - 1)]

RECURSIVE SplitSentences(_, _, _)
\* re.split(r'[.!?]+', text) followed by the strip-and-drop-empty filter:
\* the maximal runs of words between terminators
SplitSentences(lexemes, current, acc) ==
    IF lexemes = <<>>
    THEN IF current = <<>> THEN acc ELSE Append(acc, current)
    ELSE IF IsWord(Head(lexemes))
         THEN SplitSentences(Tail(lexemes), Append(current, Head(lexemes)), acc)
         ELSE SplitSentences(Tail(lexemes), <<>>,
                  IF current = <<>> THEN acc ELSE Append(acc, current))

Sentences(text) == SplitSentences(text.v, <<>>, <<>>)

\* len(self._tokenize(s)) of a sentence
SentenceTokens(sentence) == tokenize(Str(sentence))

(***************************************************************************)
(* The scorers of BasicEvaluator (basic_evaluator.py).  They are applied   *)
(* to str values; _calculate_relevance alone is also modelled on a         *)
(* question that is no str.                                                *)
(***************************************************************************)
\* mutant: the harmonic mean without its factor 2
F1WithoutFactorTwo(precision, recall) ==
    IF RatLt(Zero, RatAdd(precision, recall))
    THEN RatDiv(RatMul(precision, recall), RatAdd(precision, recall))
    ELSE Zero

\* 2 * (p * r) / (p + r) if (p + r) > 0 else 0
F1(precision, recall) ==
    IF RatLt(Zero, RatAdd(precision, recall))
    THEN RatDiv(RatMul(Rat(2, 1), RatMul(precision, recall)),
                RatAdd(precision, recall))
    ELSE Zero

\* lines 141-147 and 150-156: F1 of the overlap of two sets of n-grams
SetOverlapF1(candidate_set, reference_set) ==
    LET overlap == candidate_set \cap reference_set
        precision == IF candidate_set # {}
                     THEN Rat(Cardinality(overlap), Cardinality(candidate_set))
                     ELSE Zero
        recall == IF reference_set # {}
                  THEN Rat(Cardinality(overlap), Cardinality(reference_set))
                  ELSE Zero
    IN F1(precision, recall)

\* mutant: a mismatch always drops the token of x
LcsDropsFirstOnly(x, y) ==
    LET m == Len(x)
        n == Len(y)
        dp[i \in 0..m, j \in 0..n] ==
            IF i = 0 \/ j = 0 THEN 0
            ELSE IF x[i] = y[j] THEN dp[i - 1, j - 1] + 1
            ELSE dp[i - 1, j]
    IN dp[m, n]

\* lcs_length: the dynamic programme of lines 169-180
lcs_length(x, y) ==
    LET m == Len(x)
        n == Len(y)
        dp[i \in 0..m, j \in 0..n] ==
            IF i = 0 \/ j = 0 THEN 0
            ELSE IF x[i] = y[j] THEN dp[i - 1, j - 1] + 1
            ELSE IF dp[i - 1, j] >= dp[i, j - 1] THEN dp[i - 1, j]
            ELSE dp[i, j - 1]
    IN dp[m, n]

\* _calculate_lcs_f1
calculate_lcs_f1(candidate_tokens, reference_tokens) ==
    LET lcs_len == lcs_length(candidate_tokens, reference_tokens)
    IN IF candidate_tokens = <<>> \/ reference_tokens = <<>> THEN Zero
       ELSE LET precision == Rat(lcs_len, Len(candidate_tokens))
                recall == Rat(lcs_len, Len(reference_tokens))
            IN IF RatAdd(precision, recall) = Zero THEN Zero
               ELSE RatDiv(RatMul(Rat(2, 1), RatMul(precision, recall)),
                           RatAdd(precision, recall))

\* _calculate_rouge: the dict of the three ROUGE scores
calculate_rouge(candidate, reference) ==
    LET candidate_tokens == tokenize(candidate)
        reference_tokens == tokenize(reference)
    IN IF candidate_tokens = <<>> \/ reference_tokens = <<>>
       THEN [m \in {"rouge1", "rouge2", "rougeL"} |-> Zero]
       ELSE [m \in {"rouge1", "rouge2", "rougeL"} |->
               CASE m = "rouge1" ->
                      SetOverlapF1(SetOf(candidate_tokens), SetOf(reference_tokens))
                 [] m = "rouge2" ->
                      SetOverlapF1(SetOf(get_ngrams(candidate_tokens, 2)),
                                   SetOf(get_ngrams(reference_tokens, 2)))
                 [] m = "rougeL" ->
                      calculate_lcs_f1(candidate_tokens, reference_tokens)]

\* Counter(ngrams)[ngram]
Count(ngrams, ngram) == Cardinality({ i \in DOMAIN ngrams : ngrams[i] = ngram })

RECURSIVE ClippedOverlap(_, _, _)
\* sum(min(candidate_counts[ngram], reference_counts[ngram])
\*     for ngram in candidate_counts)
ClippedOverlap(ngrams, candidate_ngrams, reference_ngrams) ==
    IF ngrams = {} THEN 0
    ELSE LET ngram == CHOOSE g \in ngrams : TRUE
             c == Count(candidate_ngrams, ngram)
             r == Count(reference_ngrams, ngram)
         IN (IF c < r THEN c ELSE r)
              + ClippedOverlap(ngrams \ {ngram}, candidate_ngrams, reference_ngrams)

\* the precision that the loop of lines 207-222 appends for order n
NgramPrecision(candidate_tokens, reference_tokens, n) ==
    LET candidate_ngrams == get_ngrams(candidate_tokens, n)
        reference_ngrams == get_ngrams(reference_tokens, n)
    IN IF candidate_ngrams = <<>> THEN Zero
       ELSE Rat(ClippedOverlap(SetOf(candidate_ngrams), candidate_ngrams,
                               reference_ngrams),
                Len(candidate_ngrams))

\* the list precisions of _calculate_bleu (non-empty token lists)
BleuPrecisions(candidate_tokens, reference_tokens) ==
    [n \in 1..4 |-> NgramPrecision(candidate_tokens, reference_tokens, n)]

\* mutant: the geometric mean is taken over the positive precisions only
BleuSkipsZeroPrecisions(candidate, reference) ==
    LET candidate_tokens == tokenize(candidate)
        reference_tokens == tokenize(reference)
    IN IF candidate_tokens = <<>> \/ reference_tokens = <<>> THEN Zero
       ELSE LET precisions == BleuPrecisions(candidate_tokens, reference_tokens)
                positive == SelectSeq(precisions, LAMBDA p : RatLt(Zero, p))
            IN IF positive # <<>>
               THEN ExpRoot(RatMin(Zero, RatSub(One, Rat(Len(reference_tokens),
                                                         Len(candidate_tokens)))),
                            IF Len(positive) = 4
                            THEN RatMul(RatMul(positive[1], positive[2]),
                                        RatMul(positive[3], positive[4]))
                            ELSE positive[1])
               ELSE Zero

\* _calculate_bleu.  The brevity penalty min(1.0, exp(1 - r/c)) is
\* exp(min(0, 1 - r/c)); bp * 0.0 is 0.0.
calculate_bleu(candidate, reference) ==
    LET candidate_tokens == tokenize(candidate)
        reference_tokens == tokenize(reference)
    IN IF candidate_tokens = <<>> \/ reference_tokens = <<>> THEN Zero
       ELSE LET precisions == BleuPrecisions(candidate_tokens, reference_tokens)
            IN IF \A n \in 1..4 : RatLt(Zero, precisions[n])
               THEN ExpRoot(RatMin(Zero, RatSub(One, Rat(Len(reference_tokens),
                                                         Len(candidate_tokens)))),
                            RatMul(RatMul(precisions[1], precisions[2]),
                                   RatMul(precisions[3], precisions[4])))
               ELSE Zero

\* _calculate_meteor_approx
calculate_meteor_approx(candidate, reference) ==
    LET candidate_tokens == tokenize(candidate)
        reference_tokens == tokenize(reference)
    IN IF candidate_tokens = <<>> \/ reference_tokens = <<>> THEN Zero
       ELSE LET candidate_set == SetOf(candidate_tokens)
                reference_set == SetOf(reference_tokens)
                matches == Cardinality(candidate_set \cap reference_set)
                precision == Rat(matches, Cardinality(candidate_set))
                recall == Rat(matches, Cardinality(reference_set))
            IN IF RatAdd(precision, recall) = Zero THEN Zero
               ELSE LET f_mean == RatDiv(RatMul(Rat(10, 1), RatMul(precision, recall)),
                                         RatAdd(RatMul(Rat(9, 1), precision), recall))
                        penalty == RatMul(Rat(1, 2), Rat(matches, Len(candidate_tokens)))
                    IN RatMul(f_mean, RatSub(One, penalty))

\* the connectors list of _calculate_coherence
Connectors == {"however", "therefore", "moreover", "furthermore", "additionally",
               "consequently", "meanwhile", "similarly", "in contrast", "as a result"}

\* sum(1 for connector in connectors if connector in text.lower()): a
\* one-word connector is a substring of the text when it is one of its words
\* (no word of the texts contains another, and none is "in", "as" or "a")
ConnectorCount(text) ==
    Cardinality({ c \in Connectors : c \in SetOf(tokenize(text)) })

\* max(lengths) and min(lengths)
MaxOf(lengths) == CHOOSE x \in SetOf(lengths) : \A y \in SetOf(lengths) : y <= x
MinOf(lengths) == CHOOSE x \in SetOf(lengths) : \A y \in SetOf(lengths) : x <= y

\* _calculate_coherence
calculate_coherence(text) ==
    IF ~Truthy(text) THEN Zero
    ELSE LET sentences == Sentences(text)
         IN IF Len(sentences) < 2 THEN Rat(8, 10)
            ELSE LET entities == SelectSeq(text.v, IsCapitalised)
                     has_entities == entities # <<>>
                     entity_consistency ==
                         Rat(Cardinality(SetOf(entities)), Len(entities))
                     connector_score ==
                         RatMin(One, Rat(ConnectorCount(text), Len(sentences)))
                     lengths == [i \in DOMAIN sentences |->
                                    Len(SentenceTokens(sentences[i]))]
                     length_var ==
                         RatSub(One, Rat(MaxOf(lengths) - MinOf(lengths),
                                         MaxOf(lengths) + 1))
                     score == RatAdd(IF has_entities THEN entity_consistency ELSE Zero,
                                     RatAdd(connector_score, length_var))
                     factors == IF has_entities THEN 3 ELSE 2
                 IN RatDiv(score, Rat(factors, 1))

\* _calculate_relevance; the value is the exception of _tokenize when the
\* question is truthy and no str
calculate_relevance(question, answer, context) ==
    IF ~Truthy(question) \/ ~Truthy(answer) THEN Zero
    ELSE IF TokenizeRaises(question) THEN tokenize(question)
    ELSE LET question_tokens == SetOf(tokenize(question))
             answer_tokens == SetOf(tokenize(answer))
             context_tokens == IF Truthy(context) THEN SetOf(tokenize(context)) ELSE {}
             question_relevance ==
                 IF question_tokens # {}
                 THEN Rat(Cardinality(question_tokens \cap answer_tokens),
                          Cardinality(question_tokens))
                 ELSE Zero
             context_relevance ==
                 IF context_tokens # {}
                 THEN Rat(Cardinality(context_tokens \cap answer_tokens),
                          Cardinality(context_tokens))
                 ELSE Zero
         IN IF Truthy(context)
            THEN RatAdd(RatMul(Rat(7, 10), question_relevance),
                        RatMul(Rat(3, 10), context_relevance))
            ELSE question_relevance

\* the grammar_markers list of _calculate_fluency
GrammarMarkers == {"the", "a", "an", "is", "are", "was", "were", "have", "has", "had"}

RECURSIVE TotalTokens(_)
\* sum(len(self._tokenize(s)) for s in sentences)
TotalTokens(sentences) ==
    IF sentences = <<>> THEN 0
    ELSE Len(SentenceTokens(Head(sentences))) + TotalTokens(Tail(sentences))

\* _calculate_fluency
calculate_fluency(text) ==
    IF ~Truthy(text) THEN Zero
    ELSE LET sentences == Sentences(text)
             tokens == tokenize(text)
             avg_length == Rat(TotalTokens(sentences), Len(sentences))
             length_score ==
                 RatSub(One, RatDiv(RatAbs(RatSub(avg_length, Rat(15, 1))), Rat(20, 1)))
             grammar_ratio ==
                 Rat(Len(SelectSeq(tokens, LAMBDA token : token \in GrammarMarkers)),
                     Len(tokens))
             grammar_score ==
                 RatSub(One, RatDiv(RatAbs(RatSub(grammar_ratio, Rat(3, 10))), Rat(3, 10)))
             punct_count == Len(SelectSeq(text.v, LAMBDA l : l \in Terminators))
             punct_score == RatMin(One, Rat(punct_count, Len(sentences)))
             score ==
                 RatAdd(IF sentences # <<>> THEN RatMax(Zero, length_score) ELSE Zero,
                   RatAdd(IF tokens # <<>> THEN RatMax(Zero, grammar_score) ELSE Zero,
                          IF sentences # <<>> THEN punct_score ELSE Zero))
             factors == (IF sentences # <<>> THEN 2 ELSE 0)
                          + (IF tokens # <<>> THEN 1 ELSE 0)
         IN IF factors > 0 THEN RatDiv(score, Rat(factors, 1)) ELSE Rat(1, 2)

\* the stop_words set of _calculate_informativeness
StopWords ==
    {"the", "a", "an", "and", "or", "but", "in", "on", "at", "to", "for",
     "of", "with", "by", "is", "are", "was", "were", "be", "been", "being",
     "have", "has", "had", "do", "does", "did", "will", "would", "could",
     "should", "may", "might", "must", "can", "this", "that", "these",
     "those", "i", "you", "he", "she", "it", "we", "they", "me", "him",
     "her", "us", "them", "my", "your", "his", "its", "our", "their"}

\* _calculate_informativeness
calculate_informativeness(text) ==
    IF ~Truthy(text) THEN Zero
    ELSE LET tokens == tokenize(text)
         IN IF tokens = <<>> THEN Zero
            ELSE LET vocabulary_richness == Rat(Cardinality(SetOf(tokens)), Len(tokens))
                     content_words ==
                         SelectSeq(tokens, LAMBDA token : token \notin StopWords)
                     content_ratio == Rat(Len(content_words), Len(tokens))
                     informativeness ==
                         RatAdd(RatMul(Rat(6, 10), vocabulary_richness),
                                RatMul(Rat(4, 10), content_ratio))
                 IN RatMin(One, informativeness)

\* mutant: the distance from 1.0 is not divided by max(1.0, ratio)
LengthRatioUnnormalised(candidate, reference) ==
    IF ~Truthy(reference) THEN Zero
    ELSE LET candidate_length == Len(tokenize(candidate))
             reference_length == Len(tokenize(reference))
         IN IF reference_length = 0
            THEN IF candidate_length = 0 THEN One ELSE Zero
            ELSE RatSub(One, RatAbs(RatSub(One, Rat(candidate_length, reference_length))))

\* _calculate_length_ratio
calculate_length_ratio(candidate, reference) ==
    IF ~Truthy(reference) THEN Zero
    ELSE LET candidate_length == Len(tokenize(candidate))
             reference_length == Len(tokenize(reference))
         IN IF reference_length = 0
            THEN IF candidate_length = 0 THEN One ELSE Zero
            ELSE LET ratio == Rat(candidate_length, reference_length)
                 IN RatSub(One, RatDiv(RatAbs(RatSub(One, ratio)), RatMax(One, ratio)))

\* mutant: the overlap is divided by the size of the smaller set
OverlapOverSmaller(a, b) ==
    IF a # {} /\ b # {}
    THEN Rat(Cardinality(a \cap b),
             IF Cardinality(a) < Cardinality(b) THEN Cardinality(a) ELSE Cardinality(b))
    ELSE Zero

\* len(overlap) / len(union) if union else 0.0
Jaccard(a, b) ==
    IF a \cup b # {} THEN Rat(Cardinality(a \cap b), Cardinality(a \cup b)) ELSE Zero

\* mutant: the overlap is divided by the size of the candidate's token set
WordOverlapByCandidate(candidate, reference) ==
    LET candidate_tokens == SetOf(tokenize(candidate))
        reference_tokens == SetOf(tokenize(reference))
    IN IF candidate_tokens = {} /\ reference_tokens = {} THEN One
       ELSE IF candidate_tokens = {} \/ reference_tokens = {} THEN Zero
       ELSE Rat(Cardinality(candidate_tokens \cap reference_tokens),
                Cardinality(candidate_tokens))

\* _calculate_word_overlap
calculate_word_overlap(candidate, reference) ==
    LET candidate_tokens == SetOf(tokenize(candidate))
        reference_tokens == SetOf(tokenize(reference))
    IN IF candidate_tokens = {} /\ reference_tokens = {} THEN One
       ELSE IF candidate_tokens = {} \/ reference_tokens = {} THEN Zero
       ELSE Jaccard(candidate_tokens, reference_tokens)

\* best_sim of lines 439-447 for one candidate sentence
BestSimilarity(cand_sent, reference_sentences) ==
    LET cand_tokens == SetOf(SentenceTokens(cand_sent))
        sims == { Jaccard(cand_tokens, SetOf(SentenceTokens(reference_sentences[j]))) :
                    j \in { k \in DOMAIN reference_sentences :
                              /\ cand_tokens # {}
                              /\ SetOf(SentenceTokens(reference_sentences[k])) # {} } }
                \cup {Zero}
    IN CHOOSE s \in sims : \A o \in sims : RatLe(o, s)

\* _calculate_sentence_similarity
calculate_sentence_similarity(candidate, reference) ==
    LET candidate_sentences == Sentences(candidate)
        reference_sentences == Sentences(reference)
    IN IF candidate_sentences = <<>> \/ reference_sentences = <<>> THEN Zero
       ELSE LET similarities ==
                    [i \in DOMAIN candidate_sentences |->
                        BestSimilarity(candidate_sentences[i], reference_sentences)]
            IN RatDiv(SumSeq(similarities), Rat(Len(similarities), 1))

(***************************************************************************)
(* BasicEvaluator.evaluate: the metrics engine                             *)
(***************************************************************************)
\* self.available_metrics
available_metrics ==
    <<"rouge1", "rouge2", "rougeL", "bleu", "meteor_approx",
      "coherence", "relevance", "fluency", "informativeness",
      "length_ratio", "word_overlap", "sentence_similarity">>

\* a selection: None or a list of names
List(s) == [t |-> "list", v |-> s]

\* mutant: only None means the full catalog
MetricsIfNotNone(selected_metrics) ==
    IF selected_metrics.t = "list" THEN selected_metrics.v ELSE available_metrics

\* line 59: selected_metrics or self.available_metrics
MetricsToCalculate(selected_metrics) ==
    IF selected_metrics.t = "list" /\ selected_metrics.v # <<>>
    THEN selected_metrics.v
    ELSE available_metrics

\* m.startswith("rouge"), for the names that selections are made of
StartsWithRouge(m) == m \in {"rouge1", "rouge2", "rougeL", "rouge3"}

\* the ten guarded blocks of the try body, in order
Steps ==
    <<"rouge", "bleu", "meteor_approx", "coherence", "relevance", "fluency",
      "informativeness", "length_ratio", "word_overlap", "sentence_similarity">>

\* mutant: METEOR is computed without a reference answer
RequiresExpectedExceptMeteor(step) ==
    step \in {"rouge", "bleu", "length_ratio", "word_overlap", "sentence_similarity"}

\* the blocks whose condition has "and expected_answer"
RequiresExpected(step) ==
    step \in {"rouge", "bleu", "meteor_approx", "length_ratio", "word_overlap",
              "sentence_similarity"}

\* the condition of a block
StepSelected(step, metrics_to_calculate, expected_answer) ==
    /\ IF step = "rouge"
       THEN \E i \in DOMAIN metrics_to_calculate :
                StartsWithRouge(metrics_to_calculate[i])
       ELSE step \in SetOf(metrics_to_calculate)
    /\ RequiresExpected(step) => Truthy(expected_answer)

\* whether the scorer that a block calls raises
StepRaises(step, question, answer, expected_answer, context) ==
    /\ step = "relevance"
    /\ Truthy(question) /\ Truthy(answer) /\ TokenizeRaises(question)

\* the entries that a block whose scorer returns puts into results
StepEntries(step, metrics_to_calculate, question, answer, expected_answer, context) ==
    IF step = "rouge"
    THEN LET rouge_scores == calculate_rouge(answer, expected_answer)
         IN [m \in {"rouge1", "rouge2", "rougeL"} \cap SetOf(metrics_to_calculate) |->
                rouge_scores[m]]
    ELSE [m \in {step} |->
            CASE step = "bleu" -> calculate_bleu(answer, expected_answer)
              [] step = "meteor_approx" -> calculate_meteor_approx(answer, expected_answer)
              [] step = "coherence" -> calculate_coherence(answer)
              [] step = "relevance" -> calculate_relevance(question, answer, context)
              [] step = "fluency" -> calculate_fluency(answer)
              [] step = "informativeness" -> calculate_informativeness(answer)
              [] step = "length_ratio" -> calculate_length_ratio(answer, expected_answer)
              [] step = "word_overlap" -> calculate_word_overlap(answer, expected_answer)
              [] step = "sentence_similarity" ->
                     calculate_sentence_similarity(answer, expected_answer)]

\* lines 112-114: the except branch gives 0.0 to every name of
\* metrics_to_calculate that has no entry yet
DefaultFailed(results_so_far, metrics_to_calculate) ==
    [m \in (DOMAIN results_so_far) \cup SetOf(metrics_to_calculate) |->
        IF m \in DOMAIN results_so_far THEN results_so_far[m] ELSE Zero]

RECURSIVE TryBody(_, _, _, _, _, _, _)
\* lines 63-114 from block k on: the blocks run in order; the first scorer
\* that raises ends the try body and the except branch runs
TryBody(k, metrics_to_calculate, question, answer, expected_answer, context, results_so_far) ==
    IF k > Len(Steps) THEN results_so_far
    ELSE LET step == Steps[k]
         IN IF ~StepSelected(step, metrics_to_calculate, expected_answer)
            THEN TryBody(k + 1, metrics_to_calculate, question, answer,
                         expected_answer, context, results_so_far)
            ELSE IF StepRaises(step, question, answer, expected_answer, context)
            THEN DefaultFailed(results_so_far, metrics_to_calculate)
            ELSE TryBody(k + 1, metrics_to_calculate, question, answer,
                         expected_answer, context,
                         DictUpdate(results_so_far,
                             StepEntries(step, metrics_to_calculate, question,
                                         answer, expected_answer, context)))

\* BasicEvaluator.evaluate: the results dict
evaluate(eval_context, selected_metrics) ==
    LET question == DictGet(eval_context, "question", Str(<<>>))
        answer == DictGet(eval_context, "answer", Str(<<>>))
        expected_answer == DictGet(eval_context, "expected_answer", Str(<<>>))
        context == DictGet(eval_context, "context", Str(<<>>))
    IN TryBody(1, MetricsToCalculate(selected_metrics), question, answer,
               expected_answer, context, EmptyDict)

(***************************************************************************)
(* State                                                                   *)
(***************************************************************************)
VARIABLES
    evaluators,     \* self.evaluators: the registry's keys in insertion order
    pc,             \* position of the running call
    models,         \* compare_models: the models argument
    prompt,         \* compare_models: the prompt argument
    cmp_tasks,      \* compare_models: the gathered evaluate_single tasks
    model_scores,   \* _determine_winner: its local model_scores, unsorted
    cmp_return,     \* compare_models: returned dict or raised exception
    evaluation_data,\* evaluate_single: the request
    es_gen,         \* evaluate_single: model_response and response_metadata
    fw_tasks,       \* _run_evaluations: the gathered framework tasks
    first_done,     \* _run_evaluations: index of the task that finished first
    es_return,      \* evaluate_single: returned dict or raised exception
    evaluations,    \* evaluate_bulk: the items
    batch_size,     \* evaluate_bulk: the batch_size argument
    progress_callback, \* evaluate_bulk: the kind of callback passed
    batch_i,        \* evaluate_bulk: the loop variable i (0-based batch start)
    bulk_tasks,     \* evaluate_bulk: the evaluate_single task of every item
    done_order,     \* evaluate_bulk: item indexes in the order their tasks finished
    results,        \* evaluate_bulk: the results list
    progress_calls, \* evaluate_bulk: the calls made to the callback
    bulk_return,    \* evaluate_bulk: the returned list
    be_context,     \* BasicEvaluator.evaluate: the eval_context argument
    be_selected,    \* BasicEvaluator.evaluate: the selected_metrics argument
    be_return,      \* BasicEvaluator.evaluate: the returned dict
    sc_candidate,   \* the scorers: the candidate argument
    sc_reference,   \* the scorers: the reference argument
    sc_scores,      \* the scorers: the returned scores
    gam_return,     \* get_available_metrics: the returned dict
    calls,          \* the service: the calls made on it, in flight together
    enable_flags,   \* settings.ENABLE_RAGAS, ENABLE_DEEPEVAL, ENABLE_CUSTOM_METRICS
    import_ok,      \* whether the import of each optional evaluator module succeeds
    clock,          \* int(time.time() * 1000)
    id_tasks,       \* concurrent evaluations: the task of each
    id_return,      \* concurrent evaluations: the records returned
    db_session,     \* the database: whether the session's row is stored
    db_count,       \* the database: the stored session row's evaluation_count
    db_evaluations, \* the database: the ids of the stored evaluation rows
    db_created,     \* the database: the stored rows of sessions created since
    conn,           \* the one connection: the tables as its statements see them
    requests        \* the router: the requests being handled

cmp_vars == <<models, prompt, cmp_tasks, model_scores, cmp_return>>
single_vars == <<evaluation_data, es_gen, fw_tasks, first_done, es_return>>
bulk_vars == <<evaluations, batch_size, progress_callback, batch_i, bulk_tasks,
               done_order, results, progress_calls, bulk_return>>
engine_vars == <<be_context, be_selected, be_return>>
scorer_vars == <<sc_candidate, sc_reference, sc_scores>>
metrics_vars == <<engine_vars, scorer_vars>>
load_vars == <<enable_flags, import_ok>>
id_vars == <<clock, id_tasks, id_return>>
router_vars == <<db_session, db_count, db_evaluations, db_created, conn, requests>>
side_vars == <<gam_return, calls, load_vars, id_vars, router_vars>>
vars == <<evaluators, pc, cmp_vars, single_vars, bulk_vars, metrics_vars, side_vars>>

\* the state of an operation that is not called
CompareIdle ==
    /\ models = <<>> /\ prompt = "" /\ cmp_tasks = <<>>
    /\ model_scores = <<>> /\ cmp_return = Pending
SingleIdle ==
    /\ evaluation_data = Pending /\ es_gen = Pending /\ fw_tasks = <<>>
    /\ first_done = 0 /\ es_return = Pending
BulkIdle ==
    /\ evaluations = <<>> /\ batch_size = 1 /\ progress_callback = "none"
    /\ batch_i = 0 /\ bulk_tasks = <<>> /\ done_order = <<>> /\ results = <<>>
    /\ progress_calls = <<>> /\ bulk_return = Pending
EngineIdle ==
    /\ be_context = EmptyDict /\ be_selected = NoneV /\ be_return = Pending
ScorersIdle ==
    /\ sc_candidate = Str(<<>>) /\ sc_reference = Str(<<>>) /\ sc_scores = Pending
MetricsIdle == EngineIdle /\ ScorersIdle
LoadIdle ==
    /\ enable_flags = [f \in OptionalNames |-> FALSE]
    /\ import_ok = [f \in OptionalNames |-> FALSE]
IdsIdle == clock = 0 /\ id_tasks = <<>> /\ id_return = Pending
RouterIdle ==
    /\ db_session = FALSE /\ db_count = 0 /\ db_evaluations = {}
    /\ db_created = {}
    /\ conn = [session |-> FALSE, count |-> 0, evaluations |-> {}, created |-> {}]
    /\ requests = <<>>
SideIdle == gam_return = Pending /\ calls = <<>> /\ LoadIdle /\ IdsIdle /\ RouterIdle


(***************************************************************************)
(* compare_models as a process                                             *)
(***************************************************************************)
ModelPool == <<"model-a", "model-b", "model-c", "model-d">>

\* lines 318-335: one evaluate_single task per model, handed to gather; the
\* construction of EvaluationCreate is outside the try block
CompareStart ==
    /\ pc = "compare_call"
    /\ IF models # <<>> /\ ~ValidEvaluationCreate(prompt)
       THEN /\ pc' = "compare_raised"
            /\ cmp_return' = Exc("ValidationError", "prompt too short")
            /\ UNCHANGED cmp_tasks
       ELSE /\ pc' = "compare_gather"
            /\ cmp_tasks' = [i \in 1..Len(models) |-> Running]
            /\ UNCHANGED cmp_return
    /\ UNCHANGED <<side_vars, metrics_vars, evaluators, models, prompt, model_scores, single_vars, bulk_vars>>

\* the evaluate_single task of models[i] finishes, with whatever generation
\* and the frameworks produce for it
CompareTaskDone(i) ==
    /\ pc = "compare_gather"
    /\ cmp_tasks[i] = Running
    /\ \E generation \in GenerationOutcomes,
          framework_results \in [1..Len(evaluators) -> FrameworkOutcomes] :
            /\ cmp_tasks' = [cmp_tasks EXCEPT ![i] =
                Done(evaluate_single(
                        EvaluationCreate("comparison", prompt, models[i]),
                        evaluators, generation, framework_results))]
            /\ evaluators' = RegistryAfterRun(evaluators, framework_results)
    /\ UNCHANGED <<side_vars, metrics_vars, pc, models, prompt, model_scores, cmp_return, single_vars, bulk_vars>>

\* lines 335-379: gather returns once every task is done; the entries are
\* built in task order and the winner determined
CompareFinish ==
    /\ pc = "compare_gather"
    /\ Gather(cmp_tasks) # Pending
    /\ LET gathered == Gather(cmp_tasks).v
           comparisons == BuildComparisons(models, gathered)
           winner == determine_winner(comparisons)
       IN /\ model_scores' = BuildModelScores(comparisons)
          /\ cmp_return' =
               [t |-> "dict",
                models_tested |-> models,
                comparisons |-> comparisons,
                winner |-> IF IsDict(winner) THEN Str(winner.model) ELSE NoneV,
                winner_reason |-> IF IsDict(winner) THEN winner.reason ELSE NoneV]
    /\ pc' = "compare_returned"
    /\ UNCHANGED <<side_vars, metrics_vars, evaluators, models, prompt, cmp_tasks, single_vars, bulk_vars>>

\* compare_models is called on a constructed service.  Several models are
\* compared on the registries the repository's own modules give (no plug-in
\* module installed: empty when a flag is enabled, basic alone otherwise);
\* the other registries are explored with a single model.
CompareInit ==
    /\ MetricsIdle
    /\ SideIdle
    /\ evaluators \in Registries
    /\ \E n \in 0..MaxModels : models = SubSeq(ModelPool, 1, n)
    /\ Len(models) <= 1 \/ evaluators \in {<<>>, <<"basic">>}
    /\ model_scores = <<>>
    /\ prompt \in {"", "which model is best?"}
    /\ pc = "compare_call"
    /\ cmp_tasks = <<>>
    /\ cmp_return = Pending
    /\ SingleIdle
    /\ BulkIdle

CompareNext ==
    \/ CompareStart
    \/ \E i \in DOMAIN cmp_tasks : CompareTaskDone(i)
    \/ CompareFinish

SpecCompare == CompareInit /\ [][CompareNext]_vars

(***************************************************************************)
(* evaluate_single as a process                                            *)
(***************************************************************************)
\* lines 70-86: the generation step
SingleGenerate ==
    /\ pc = "single_call"
    /\ \E generation \in GenerationOutcomes :
          es_gen' = GenerationStep(evaluation_data, generation)
    /\ pc' = "single_dispatch"
    /\ UNCHANGED <<side_vars, metrics_vars, evaluators, evaluation_data, fw_tasks, first_done, es_return, cmp_vars, bulk_vars>>

\* lines 164-173: one task per registered framework, all handed to gather
SingleDispatch ==
    /\ pc = "single_dispatch"
    /\ fw_tasks' = [i \in 1..Len(evaluators) |-> Running]
    /\ pc' = "single_gather"
    /\ UNCHANGED <<side_vars, metrics_vars, evaluators, evaluation_data, es_gen, first_done, es_return, cmp_vars, bulk_vars>>

\* lines 194-213: the task of framework i finishes: its evaluator returned a
\* value, or raised and _run_framework_evaluation re-raised
FrameworkDone(i) ==
    /\ pc = "single_gather"
    /\ fw_tasks[i] = Running
    /\ \E outcome \in FrameworkOutcomes :
          fw_tasks' = [fw_tasks EXCEPT ![i] = Done(outcome)]
    /\ first_done' = IF first_done = 0 THEN i ELSE first_done
    /\ UNCHANGED <<side_vars, metrics_vars, evaluators, pc, evaluation_data, es_gen, es_return, cmp_vars, bulk_vars>>

\* lines 173-192 and 98-151: gather delivers, the results are processed and
\* evaluate_single returns its result or raises EvaluationException
SingleFinish ==
    /\ pc = "single_gather"
    /\ Gather(fw_tasks) # Pending
    /\ LET gathered == Gather(fw_tasks)
           evaluation_results ==
               IF IsException(gathered) THEN gathered
               ELSE run_evaluations(evaluators, gathered.v)
           result == CompileResult(evaluation_data, es_gen, evaluation_results)
       IN /\ es_return' = result
          /\ pc' = IF IsException(result) THEN "single_raised" ELSE "single_returned"
    /\ evaluators' = RegistryAfterRun(evaluators,
                                      [i \in DOMAIN fw_tasks |-> fw_tasks[i].result])
    /\ UNCHANGED <<side_vars, metrics_vars, evaluation_data, es_gen, fw_tasks, first_done, cmp_vars, bulk_vars>>

SingleInit ==
    /\ MetricsIdle
    /\ SideIdle
    /\ evaluators \in Registries
    /\ \E m \in {"", ModelPool[1]} :
          evaluation_data = EvaluationCreate("session-1", "what is x?", m)
    /\ pc = "single_call"
    /\ es_gen = Pending
    /\ fw_tasks = <<>>
    /\ first_done = 0
    /\ es_return = Pending
    /\ CompareIdle
    /\ BulkIdle

SingleNext ==
    \/ SingleGenerate
    \/ SingleDispatch
    \/ \E i \in DOMAIN fw_tasks : FrameworkDone(i)
    \/ SingleFinish

SpecSingle == SingleInit /\ [][SingleNext]_vars

(***************************************************************************)
(* evaluate_bulk as a process                                              *)
(***************************************************************************)
PromptPool == <<"q1", "q2", "q3", "q4", "q5">>

\* what generation and the frameworks produce for the items of a bulk run
BulkGenerationOutcomes ==
    { g \in GenerationOutcomes :
        IsException(g) \/ (g.response_time = 1 /\ g.cost = NoneV) }
BulkFrameworkOutcomes ==
    { o \in FrameworkOutcomes : IsDict(o) => o.v["score"] = Num(Scale) }

\* the kinds of progress_callback: absent, a coroutine function that
\* returns, a coroutine function that raises, a plain function (whose
\* return value cannot be awaited)
CallbackKinds == {"none", "async_ok", "async_raises", "sync"}
CallbackRaises(kind) == kind \in {"async_raises", "sync"}
CallbackError(kind) ==
    IF kind = "sync"
    THEN Exc("TypeError", "object NoneType can't be used in 'await' expression")
    ELSE Exc("RuntimeError", "callback failed")

Min(a, b) == IF a < b THEN a ELSE b

\* mutant: every remaining item is put in the batch
BatchIndexesToEnd(i, size, total) == (i + 1)..total

\* the 1-based item indexes of the batch starting at i (line 240)
BatchIndexes(i, size, total) == (i + 1)..Min(i + size, total)

\* lines 257-262
ErrorRecord(index, exception, item) ==
    [id |-> <<"error", index>>,
     status |-> "failed",
     error |-> exception.msg,
     evaluation_data |-> item]

\* lines 280-285
BatchErrorRecord(index, exception, item) ==
    [id |-> <<"batch_error", index>>,
     status |-> "failed",
     error |-> "Batch processing failed: " \o exception.msg,
     evaluation_data |-> item]

\* mutant: the batch results in the order the tasks finished
CompletionOrder(i, size, total, order) ==
    SelectSeq(order, LAMBDA x : x \in BatchIndexes(i, size, total))

\* the item indexes of batch_results in list order: gather delivers the
\* results in task order, whatever order the tasks finished in (line 250)
BatchOrder(i, size, total, order) ==
    [j \in 1..(Min(i + size, total) - i) |-> i + j]

\* mutant: a failed item is dropped
RecordOrNothing(index, result, item) ==
    IF IsException(result) THEN <<>> ELSE <<result>>

\* lines 254-265: what one gathered result appends to results
RecordOf(index, result, item) ==
    IF IsException(result)
    THEN <<ErrorRecord(index, result, item)>>
    ELSE <<result>>

RECURSIVE BatchRecords(_, _, _, _)
\* lines 253-265: the records appended for the batch whose item indexes, in
\* batch_results order, are order[k..]
BatchRecords(order, k, tasks, items) ==
    IF k > Len(order) THEN <<>>
    ELSE RecordOf(order[k] - 1, tasks[order[k]].result, items[order[k]])
            \o BatchRecords(order, k + 1, tasks, items)

\* lines 279-286: the records the except branch appends for the whole batch
BatchFailureRecords(i, size, total, exception, items) ==
    [j \in 1..(Min(i + size, total) - i) |->
        BatchErrorRecord(i + j - 1, exception, items[i + j])]

\* lines 239-246: the next batch is cut and its tasks are created
BulkStartBatch ==
    /\ pc = "bulk_loop"
    /\ batch_i < Len(evaluations)
    /\ bulk_tasks' =
          [k \in DOMAIN bulk_tasks |->
              IF k \in BatchIndexes(batch_i, batch_size, Len(evaluations))
              THEN Running ELSE bulk_tasks[k]]
    /\ pc' = "bulk_gather"
    /\ UNCHANGED <<side_vars, metrics_vars, evaluators, evaluations, batch_size, progress_callback, batch_i,
                   done_order, results, progress_calls, bulk_return,
                   cmp_vars, single_vars>>

\* the evaluate_single task of item k finishes
BulkTaskDone(k) ==
    /\ pc = "bulk_gather"
    /\ bulk_tasks[k] = Running
    /\ \E generation \in BulkGenerationOutcomes,
          framework_results \in [1..Len(evaluators) -> BulkFrameworkOutcomes] :
            /\ bulk_tasks' = [bulk_tasks EXCEPT ![k] =
                Done(evaluate_single(evaluations[k], evaluators,
                                     generation, framework_results))]
            /\ evaluators' = RegistryAfterRun(evaluators, framework_results)
    /\ done_order' = Append(done_order, k)
    /\ UNCHANGED <<side_vars, metrics_vars, pc, evaluations, batch_size, progress_callback, batch_i,
                   results, progress_calls, bulk_return, cmp_vars, single_vars>>

\* mutant: the processed count is not capped by the number of items
ProcessedItemsUncapped(i, size, total) == i + size

\* line 268: processed_items = min(i + batch_size, total_items)
ProcessedItems(i, size, total) == Min(i + size, total)

\* whether awaiting the call of the callback can suspend evaluate_bulk: a
\* coroutine function's coroutine can; with no callback nothing is awaited,
\* and awaiting the None a plain function returns raises at once
CallbackSuspends(kind) == kind \in {"async_ok", "async_raises"}

\* lines 249-272: gather delivers the batch; its records are appended and
\* the callback, if any, is called.  With a coroutine function evaluate_bulk
\* is now suspended at the await of line 272, its records in results; with
\* a plain function the await raises at once and the except branch (lines
\* 276-286) appends one batch-error record per item of the batch
BulkFinishBatch ==
    /\ pc = "bulk_gather"
    /\ LET total_items == Len(evaluations)
           batch == BatchIndexes(batch_i, batch_size, total_items)
           gathered == Gather([k \in batch |-> bulk_tasks[k]])
           processed_items == ProcessedItems(batch_i, batch_size, total_items)
           appended ==
               results \o BatchRecords(
                   BatchOrder(batch_i, batch_size, total_items, done_order),
                   1, bulk_tasks, evaluations)
       IN /\ gathered # Pending
          /\ progress_calls' =
                IF progress_callback = "none" THEN progress_calls
                ELSE Append(progress_calls,
                            [processed |-> processed_items,
                             total |-> total_items,
                             progress |-> <<processed_items * 100, total_items>>,
                             recorded |-> Len(appended)])
          /\ results' =
                IF CallbackRaises(progress_callback)
                      /\ ~CallbackSuspends(progress_callback)
                THEN appended \o BatchFailureRecords(batch_i, batch_size, total_items,
                                    CallbackError(progress_callback), evaluations)
                ELSE appended
    /\ IF CallbackSuspends(progress_callback)
       THEN pc' = "bulk_callback" /\ UNCHANGED batch_i
       ELSE pc' = "bulk_loop" /\ batch_i' = batch_i + batch_size
    /\ UNCHANGED <<side_vars, metrics_vars, evaluators, evaluations, batch_size, progress_callback, bulk_tasks,
                   done_order, bulk_return, cmp_vars, single_vars>>

\* lines 272-286: the awaited callback ends: it returns, or it raises and
\* the except branch appends one batch-error record per item of the batch
BulkCallbackEnds ==
    /\ pc = "bulk_callback"
    /\ results' =
          IF CallbackRaises(progress_callback)
          THEN results \o BatchFailureRecords(batch_i, batch_size, Len(evaluations),
                              CallbackError(progress_callback), evaluations)
          ELSE results
    /\ batch_i' = batch_i + batch_size
    /\ pc' = "bulk_loop"
    /\ UNCHANGED <<side_vars, metrics_vars, evaluators, evaluations, batch_size, progress_callback, bulk_tasks,
                   done_order, progress_calls, bulk_return, cmp_vars, single_vars>>

\* lines 288-293: the loop is over
BulkReturn ==
    /\ pc = "bulk_loop"
    /\ batch_i >= Len(evaluations)
    /\ bulk_return' = [t |-> "list", v |-> results]
    /\ pc' = "bulk_returned"
    /\ UNCHANGED <<side_vars, metrics_vars, evaluators, evaluations, batch_size, progress_callback, batch_i,
                   bulk_tasks, done_order, results, progress_calls,
                   cmp_vars, single_vars>>

NotStarted == [st |-> "created"]

\* evaluate_bulk is called on a service whose registry is basic alone
BulkInit ==
    /\ MetricsIdle
    /\ SideIdle
    /\ evaluators = load_evaluators([f \in OptionalNames |-> FALSE],
                                    [f \in OptionalNames |-> FALSE])
    /\ \E n \in 0..MaxItems :
          evaluations = [k \in 1..n |->
                            EvaluationCreate("session-1", PromptPool[k], ModelPool[1])]
    /\ batch_size \in 1..MaxBatch
    /\ progress_callback \in CallbackKinds
    /\ batch_i = 0
    /\ bulk_tasks = [k \in DOMAIN evaluations |-> NotStarted]
    /\ done_order = <<>>
    /\ results = <<>>
    /\ progress_calls = <<>>
    /\ bulk_return = Pending
    /\ pc = "bulk_loop"
    /\ CompareIdle
    /\ SingleIdle

BulkNext ==
    \/ BulkStartBatch
    \/ \E k \in DOMAIN bulk_tasks : BulkTaskDone(k)
    \/ BulkFinishBatch
    \/ BulkCallbackEnds
    \/ BulkReturn

SpecBulk == BulkInit /\ [][BulkNext]_vars

(***************************************************************************)
(* BasicEvaluator.evaluate as a process                                    *)
(***************************************************************************)
\* every text of at most n lexemes
TextsOver(lexemes, n) ==
    { Str(s) : s \in UNION { [1..k -> SetOf(lexemes)] : k \in 0..n } }

\* the lexemes of the answers given to the engine
EngineLexemes == <<"The", "however", ".">>

\* the expected answers given to the engine: the key absent, None, "" and
\* two references
AbsentKey == [t |-> "absent"]
ExpectedAnswers ==
    { AbsentKey, NoneV, Str(<<>>), Str(<<"the", "cat">>),
      Str(<<"The", "cat", ".", "however">>) }

\* the questions: "", a question, and a value that is no str
Questions == { Str(<<>>), Str(<<"the", "cat">>), Num(5) }

\* the contexts: the key absent, and a context
Contexts == { AbsentKey, Str(<<"however", "dog">>) }

\* the selections: None, [], the catalog, and lists with names in another
\* order than the catalog's and with names outside of it
Selections ==
    { NoneV, List(<<>>), List(available_metrics),
      List(<<"rouge1", "coherence", "unknown_metric">>),
      List(<<"fluency", "relevance", "meteor_approx", "word_overlap", "other_metric">>),
      List(<<"rouge3", "informativeness", "bleu">>),
      List(<<"sentence_similarity", "length_ratio", "relevance">>) }

\* the dict {"question": ..., "answer": ..., "expected_answer": ...,
\* "context": ...} without the absent keys
EvalContext(question, answer, expected_answer, context) ==
    LET all == [k \in {"question", "answer", "expected_answer", "context"} |->
                  CASE k = "question" -> question
                    [] k = "answer" -> answer
                    [] k = "expected_answer" -> expected_answer
                    [] k = "context" -> context]
    IN [k \in { x \in DOMAIN all : all[x] # AbsentKey } |-> all[k]]

\* a call of evaluate returns
EngineEvaluate ==
    /\ pc = "engine_call"
    /\ be_return' = Dict(evaluate(be_context, be_selected))
    /\ pc' = "engine_returned"
    /\ UNCHANGED <<side_vars, evaluators, be_context, be_selected, scorer_vars,
                   cmp_vars, single_vars, bulk_vars>>

EngineInit ==
    /\ evaluators = <<"basic">>
    /\ \E q \in Questions, a \in TextsOver(EngineLexemes, MaxAnswerLen),
          e \in ExpectedAnswers, c \in Contexts :
          be_context = EvalContext(q, a, e, c)
    /\ be_selected \in Selections
    /\ be_return = Pending
    /\ pc = "engine_call"
    /\ ScorersIdle
    /\ SideIdle
    /\ CompareIdle
    /\ SingleIdle
    /\ BulkIdle

EngineNext == EngineEvaluate

SpecEngine == EngineInit /\ [][EngineNext]_vars

(***************************************************************************)
(* The scorers applied to a candidate and a reference                      *)
(***************************************************************************)
\* the lexemes of the candidates and of the references
CandidateLexemes == <<"the", "However", ".">>
ReferenceLexemes == <<"the", "dog", ".">>

\* references longer than a candidate can be
LongReferences ==
    { Str(<<"the", "the", "the", "the", "the">>),
      Str(<<"the", "dog", "the", "the", "the", "the">>) }

\* the context given to _calculate_relevance next to no context
SampleContext == Str(<<"the", "dog", "however">>)

\* every scorer is called on the pair: the candidate is the answer, the
\* reference is the expected answer and the question; word overlap is also
\* called with the arguments swapped and ROUGE on the candidate with itself
ScoreAll ==
    /\ pc = "scorers_call"
    /\ sc_scores' =
          [rouge |-> calculate_rouge(sc_candidate, sc_reference),
           bleu |-> calculate_bleu(sc_candidate, sc_reference),
           meteor_approx |-> calculate_meteor_approx(sc_candidate, sc_reference),
           coherence |-> calculate_coherence(sc_candidate),
           relevance |-> calculate_relevance(sc_reference, sc_candidate, Str(<<>>)),
           relevance_context |->
               calculate_relevance(sc_reference, sc_candidate, SampleContext),
           fluency |-> calculate_fluency(sc_candidate),
           informativeness |-> calculate_informativeness(sc_candidate),
           length_ratio |-> calculate_length_ratio(sc_candidate, sc_reference),
           word_overlap |-> calculate_word_overlap(sc_candidate, sc_reference),
           word_overlap_swapped |-> calculate_word_overlap(sc_reference, sc_candidate),
           rouge_self |-> calculate_rouge(sc_candidate, sc_candidate),
           sentence_similarity |->
               calculate_sentence_similarity(sc_candidate, sc_reference)]
    /\ pc' = "scorers_returned"
    /\ UNCHANGED <<side_vars, evaluators, sc_candidate, sc_reference, engine_vars,
                   cmp_vars, single_vars, bulk_vars>>

ScorersInit ==
    /\ evaluators = <<"basic">>
    /\ sc_candidate \in TextsOver(CandidateLexemes, MaxLen)
    /\ sc_reference \in TextsOver(ReferenceLexemes, MaxLen) \cup LongReferences
    /\ sc_scores = Pending
    /\ pc = "scorers_call"
    /\ EngineIdle
    /\ SideIdle
    /\ CompareIdle
    /\ SingleIdle
    /\ BulkIdle

ScorersNext == ScoreAll

SpecScorers == ScorersInit /\ [][ScorersNext]_vars

(***************************************************************************)
(* _calculate_lcs_f1 applied to two token lists                            *)
(***************************************************************************)
\* the lexemes of the token lists
LcsLexemes == <<"the", "dog">>

\* a call of _calculate_lcs_f1 returns (the value of its inner lcs_length is
\* kept next to the score)
ScoreLcs ==
    /\ pc = "lcs_call"
    /\ sc_scores' =
          [lcs_len |-> lcs_length(tokenize(sc_candidate), tokenize(sc_reference)),
           rougeL |-> calculate_lcs_f1(tokenize(sc_candidate), tokenize(sc_reference))]
    /\ pc' = "lcs_returned"
    /\ UNCHANGED <<side_vars, evaluators, sc_candidate, sc_reference, engine_vars,
                   cmp_vars, single_vars, bulk_vars>>

LcsInit ==
    /\ evaluators = <<"basic">>
    /\ sc_candidate \in TextsOver(LcsLexemes, MaxLen)
    /\ sc_reference \in TextsOver(LcsLexemes, MaxLen)
    /\ sc_scores = Pending
    /\ pc = "lcs_call"
    /\ EngineIdle
    /\ SideIdle
    /\ CompareIdle
    /\ SingleIdle
    /\ BulkIdle

LcsNext == ScoreLcs

SpecLcs == LcsInit /\ [][LcsNext]_vars

(***************************************************************************)
(* The construction of the service                                         *)
(***************************************************************************)
\* lines 24 and 26-49: __init__ calls _load_evaluators
LoadEvaluators ==
    /\ pc = "load_call"
    /\ evaluators' = load_evaluators(enable_flags, import_ok)
    /\ pc' = "constructed"
    /\ UNCHANGED <<gam_return, calls, load_vars, id_vars, router_vars, metrics_vars,
                   cmp_vars, single_vars, bulk_vars>>

\* line 23: the registry is empty when _load_evaluators is called; the
\* settings and the installed plug-in modules are whatever the deployment has
LoadInit ==
    /\ evaluators = <<>>
    /\ enable_flags \in [OptionalNames -> BOOLEAN]
    /\ import_ok \in [OptionalNames -> BOOLEAN]
    /\ pc = "load_call"
    /\ gam_return = Pending /\ calls = <<>> /\ IdsIdle /\ RouterIdle
    /\ MetricsIdle
    /\ CompareIdle
    /\ SingleIdle
    /\ BulkIdle

LoadNext == LoadEvaluators

SpecLoad == LoadInit /\ [][LoadNext]_vars

(***************************************************************************)
(* The service: calls in flight together on the one EvaluationService      *)
(***************************************************************************)
\* the number of calls made on the service in a run
MaxCalls == 2
\* the number of evaluate_single calls one evaluate_bulk batch or one
\* compare_models call gathers
MaxRuns == 1

\* lines 450-461: one entry per registered framework
get_available_metrics(registry, plugin_metrics) ==
    Dict([f \in { registry[i] : i \in DOMAIN registry } |->
            IF f = "basic" THEN List(available_metrics) ELSE List(plugin_metrics[f])])

ServiceOperations ==
    <<"evaluate_single", "evaluate_bulk", "compare_models", "get_available_metrics">>

\* a call that has not been made yet; failed tells whether a framework has
\* failed in one of the call's evaluations
PendingCall(op) == [op |-> op, st |-> "pending", runs |-> <<>>, failed |-> FALSE]

\* a call that has ended: its locals are gone
EndedCall(op, st) == [op |-> op, st |-> st, runs |-> <<>>, failed |-> FALSE]

\* one evaluate_single coroutine, created and not yet at line 98
StartedRun == [st |-> "started", tasks |-> <<>>]

\* what the frameworks hand to the gather of line 173, in task order: the
\* frameworks of raised raise, the others return a dict, but for basic when
\* basic_dict is false: it returns something that is no dict
RunResults(tasks, raised, basic_dict) ==
    [k \in DOMAIN tasks |->
        IF k \in raised THEN Exc("RuntimeError", "framework failed")
        ELSE IF tasks[k] = "basic" /\ ~basic_dict THEN NoneV
        ELSE Dict([m \in {"score"} |-> Num(Scale)])]

\* a call of evaluate_single, evaluate_bulk or compare_models is made.
\* evaluate_single is its own coroutine; evaluate_bulk (lines 239-250) and
\* compare_models (lines 321-336) create one evaluate_single coroutine per
\* item of the batch or per model and gather them; compare_models raises
\* before that when EvaluationCreate rejects its arguments (lines 322-328)
CallArrives(c) ==
    /\ pc = "service"
    /\ calls[c].st = "pending"
    /\ calls[c].op # "get_available_metrics"
    /\ \E n \in 0..MaxRuns, valid \in BOOLEAN :
          /\ calls[c].op = "evaluate_single" => n = 1 /\ valid
          /\ calls[c].op = "evaluate_bulk" => valid
          /\ calls[c].op = "compare_models" => n >= 1
          /\ calls' = [calls EXCEPT ![c] =
                IF valid
                THEN [@ EXCEPT !.st = "running", !.runs = [k \in 1..n |-> StartedRun]]
                ELSE EndedCall(@.op, "raised")]
    /\ UNCHANGED <<gam_return, load_vars, id_vars, router_vars, metrics_vars,
                   evaluators, pc, cmp_vars, single_vars, bulk_vars>>

\* evaluate_single lines 70-98 and _run_evaluations lines 159-173: after
\* the awaited generation the coroutine reads self.evaluators.items(),
\* creates one task per registered framework and awaits their gather
RunDispatch(c, i) ==
    /\ pc = "service"
    /\ calls[c].st = "running"
    /\ calls[c].runs[i].st = "started"
    /\ calls' = [calls EXCEPT ![c].runs[i] =
                    [@ EXCEPT !.st = "gathering", !.tasks = evaluators]]
    /\ UNCHANGED <<gam_return, load_vars, id_vars, router_vars, metrics_vars,
                   evaluators, pc, cmp_vars, single_vars, bulk_vars>>

\* _run_evaluations lines 173-192 and evaluate_single lines 98-151: gather
\* delivers the frameworks' results; the loop of line 176 reads
\* self.evaluators.items() again and fills the local dicts; evaluate_single
\* reads list(self.evaluators.keys()) (line 129) and returns its result, or
\* raises EvaluationException when the loop raised.  A call of
\* evaluate_single ends with it; the gather of evaluate_bulk or
\* compare_models takes the result or the exception
RunFinish(c, i) ==
    /\ pc = "service"
    /\ calls[c].st = "running"
    /\ calls[c].runs[i].st = "gathering"
    /\ \E raised \in SUBSET DOMAIN calls[c].runs[i].tasks, basic_dict \in BOOLEAN :
        LET framework_results == RunResults(calls[c].runs[i].tasks, raised, basic_dict)
        IN
          /\ calls' = [calls EXCEPT ![c] =
                IF @.op = "evaluate_single"
                THEN EndedCall(@.op,
                        IF IsException(run_evaluations(evaluators, framework_results))
                        THEN "raised" ELSE "returned")
                ELSE [@ EXCEPT !.runs[i].st = "ended",
                               !.failed = @ \/ raised # {}]]
          /\ evaluators' = RegistryAfterRun(evaluators, framework_results)
    /\ UNCHANGED <<gam_return, load_vars, id_vars, router_vars, metrics_vars,
                   pc, cmp_vars, single_vars, bulk_vars>>

\* evaluate_bulk lines 250-293 and compare_models lines 336-381: the gather
\* of the call's coroutines delivers, an exception of a coroutine becomes a
\* record or an entry of the result (compare_models reads
\* list(self.evaluators.keys()) at line 374), and the call returns
CallReturns(c) ==
    /\ pc = "service"
    /\ calls[c].st = "running"
    /\ calls[c].op \in {"evaluate_bulk", "compare_models"}
    /\ \A i \in DOMAIN calls[c].runs : calls[c].runs[i].st = "ended"
    /\ calls' = [calls EXCEPT ![c] = EndedCall(@.op, "returned")]
    /\ UNCHANGED <<gam_return, load_vars, id_vars, router_vars, metrics_vars,
                   evaluators, pc, cmp_vars, single_vars, bulk_vars>>

\* lines 450-461: a call of get_available_metrics, which has no await: it
\* iterates self.evaluators.items() into a new dict and returns it
GetAvailableMetrics(c) ==
    /\ pc = "service"
    /\ calls[c].st = "pending"
    /\ calls[c].op = "get_available_metrics"
    /\ \E plugin_metrics \in [OptionalNames -> PluginMetricLists] :
          gam_return' = get_available_metrics(evaluators, plugin_metrics)
    /\ calls' = [calls EXCEPT ![c].st = "returned"]
    /\ UNCHANGED <<load_vars, id_vars, router_vars, metrics_vars, evaluators,
                   pc, cmp_vars, single_vars, bulk_vars>>

\* line 463: the module's one service instance, constructed, and the calls
\* the requests of a run make on it (listed by operation: they arrive in
\* any order)
ServiceInit ==
    /\ evaluators \in Registries
    /\ pc = "service"
    /\ \E n \in 1..MaxCalls :
          \E ops \in [1..n -> DOMAIN ServiceOperations] :
             /\ \A k \in 1..(n - 1) : ops[k] <= ops[k + 1]
             /\ calls = [k \in 1..n |-> PendingCall(ServiceOperations[ops[k]])]
    /\ gam_return = Pending /\ LoadIdle /\ IdsIdle /\ RouterIdle
    /\ MetricsIdle
    /\ CompareIdle
    /\ SingleIdle
    /\ BulkIdle

ServiceNext ==
    \/ \E c \in DOMAIN calls : CallArrives(c)
    \/ \E c \in DOMAIN calls : \E i \in DOMAIN calls[c].runs : RunDispatch(c, i)
    \/ \E c \in DOMAIN calls : \E i \in DOMAIN calls[c].runs : RunFinish(c, i)
    \/ \E c \in DOMAIN calls : CallReturns(c)
    \/ \E c \in DOMAIN calls : GetAvailableMetrics(c)

SpecService == ServiceInit /\ [][ServiceNext]_vars

(***************************************************************************)
(* The ids of concurrent evaluations                                       *)
(***************************************************************************)
\* the last value of the millisecond clock in a run
MaxClock == 2

\* line 104: f"eval_{int(time.time() * 1000)}"
EvalId(ms) == <<"eval", ms>>
\* line 258: f"error_{int(time.time() * 1000)}_{i+j}"
ErrorId(ms, index) == <<"error", ms, index>>

\* the millisecond clock advances
ClockTick ==
    /\ pc \in {"ids_gather", "ids_records", "serving"}
    /\ clock < MaxClock
    /\ clock' = clock + 1
    /\ UNCHANGED <<gam_return, calls, load_vars, router_vars, id_tasks, id_return,
                   metrics_vars, evaluators, pc, cmp_vars, single_vars, bulk_vars>>

\* lines 98-106 and 140-151: the evaluate_single call of item k ends: it
\* compiles its result, whose id is read off the clock, or raises
IdTaskDone(k) ==
    /\ pc = "ids_gather"
    /\ id_tasks[k] = Running
    /\ \E failed \in BOOLEAN :
          id_tasks' = [id_tasks EXCEPT ![k] =
              IF failed
              THEN Done(Exc("EvaluationException", "Evaluation failed"))
              ELSE Done([t |-> "dict", id |-> EvalId(clock), status |-> "completed"])]
    /\ UNCHANGED <<gam_return, calls, load_vars, router_vars, clock, id_return,
                   metrics_vars, evaluators, pc, cmp_vars, single_vars, bulk_vars>>

\* line 250: gather delivers the results of the concurrent calls once all
\* of them have ended
IdsGathered ==
    /\ pc = "ids_gather"
    /\ AllDone(id_tasks)
    /\ pc' = "ids_records"
    /\ UNCHANGED <<side_vars, metrics_vars, evaluators, cmp_vars, single_vars, bulk_vars>>

\* lines 253-265, one turn of the loop: the next result is appended to
\* results; the result of a call that raised becomes an error record whose
\* id is read off the clock at that moment and ends with the item's index
IdsRecord ==
    /\ pc = "ids_records"
    /\ Len(results) < Len(id_tasks)
    /\ LET k == Len(results) + 1
       IN results' = Append(results,
              IF IsException(id_tasks[k].result)
              THEN [t |-> "dict", id |-> ErrorId(clock, k - 1), status |-> "failed"]
              ELSE id_tasks[k].result)
    /\ UNCHANGED <<side_vars, metrics_vars, evaluators, pc, cmp_vars, single_vars,
                   evaluations, batch_size, progress_callback, batch_i, bulk_tasks,
                   done_order, progress_calls, bulk_return>>

\* lines 288-293: the loop is over and the records are returned
IdsReturn ==
    /\ pc = "ids_records"
    /\ Len(results) = Len(id_tasks)
    /\ id_return' = List(results)
    /\ pc' = "ids_returned"
    /\ UNCHANGED <<gam_return, calls, load_vars, router_vars, clock, id_tasks,
                   metrics_vars, evaluators, cmp_vars, single_vars, bulk_vars>>

\* lines 242-250: the evaluate_single calls of one batch are started together
IdsInit ==
    /\ evaluators = <<"basic">>
    /\ clock = 0
    /\ \E n \in 1..MaxItems : id_tasks = [k \in 1..n |-> Running]
    /\ id_return = Pending
    /\ pc = "ids_gather"
    /\ gam_return = Pending /\ calls = <<>> /\ LoadIdle /\ RouterIdle
    /\ MetricsIdle
    /\ CompareIdle
    /\ SingleIdle
    /\ BulkIdle

IdsNext ==
    \/ ClockTick
    \/ \E k \in DOMAIN id_tasks : IdTaskDone(k)
    \/ IdsGathered
    \/ IdsRecord
    \/ IdsReturn

SpecIds == IdsInit /\ [][IdsNext]_vars

(***************************************************************************)
(* The endpoints on one session (routers/evaluations.py, sessions.py) and  *)
(* the database they share (database/database.py)                          *)
(*                                                                         *)
(* With the default SQLite URL the engine is built on a StaticPool         *)
(* (database.py lines 17-24): the database sessions of all requests work   *)
(* on one connection.  A statement of any request sees and changes the     *)
(* tables as that connection has them (conn); a commit of any request      *)
(* stores whatever the connection holds (db_session, db_count,             *)
(* db_evaluations); a rollback of any request discards whatever the        *)
(* connection holds and is not stored.  create_evaluation runs on the      *)
(* event loop, delete_evaluation, delete_session and get_db in worker      *)
(* threads, so requests interleave between any two statements.  The id of  *)
(* a new evaluation row is read off the millisecond clock.                 *)
(***************************************************************************)
\* the number of concurrent requests
MaxRequests == 3

\* the evaluation rows the session may have before the requests arrive
StoredBefore == { {}, {EvalId(0)} }

\* no evaluation id
NoId == <<>>

Max(a, b) == IF a > b THEN a ELSE b

\* a request as received: st is the handler's position, tx whether the
\* request's database session is in a transaction on the connection,
\* session_loaded and read_count the session object it has loaded, target
\* the evaluation id it names or is given, cascade the evaluation rows it
\* has loaded for a cascading delete
NewRequest(kind, id) ==
    [kind |-> kind, st |-> "received", tx |-> FALSE, session_loaded |-> FALSE,
     read_count |-> 0, target |-> id, cascade |-> {}]

\* the requests of the endpoints that work on the session, its evaluation
\* rows or the connection: POST /evaluate, DELETE and PUT /evaluations/{id},
\* DELETE, PUT and GET /sessions/{id}, POST /sessions/{id}/archive and
\* /restore, POST /sessions
RequestPool ==
    <<NewRequest("create", NoId)>>
    \o [ms \in 1..(MaxClock + 1) |-> NewRequest("delete", EvalId(ms - 1))]
    \o [ms \in 1..(MaxClock + 1) |-> NewRequest("update_evaluation", EvalId(ms - 1))]
    \o <<NewRequest("delete_session", NoId), NewRequest("archive_session", NoId),
         NewRequest("restore_session", NoId), NewRequest("update_session", NoId),
         NewRequest("create_session", NoId), NewRequest("get_session", NoId)>>

\* what the database has stored, as a connection without pending
\* statements sees it
Stored ==
    [session |-> db_session, count |-> db_count, evaluations |-> db_evaluations,
     created |-> db_created]

\* create_evaluation is a coroutine: from the return of the awaited
\* evaluation (line 44) to its answer it runs on the event loop without
\* another await, so no other create_evaluation runs in between; the other
\* handlers and get_db are plain functions and run in worker threads
LoopTaken(r) ==
    \E q \in DOMAIN requests \ {r} :
        /\ requests[q].kind = "create"
        /\ requests[q].st \in {"updated", "flushed", "committed", "stored", "raising"}

\* create_evaluation lines 36-41: the session row is loaded into the
\* request's own database session; without the row the answer is status 404
CreateReadSession(r) ==
    /\ pc = "serving"
    /\ requests[r].kind = "create"
    /\ requests[r].st = "received"
    /\ ~LoopTaken(r)
    /\ requests' =
          IF conn.session
          THEN [requests EXCEPT ![r].st = "evaluating", ![r].tx = TRUE,
                                ![r].session_loaded = TRUE,
                                ![r].read_count = conn.count]
          ELSE [requests EXCEPT ![r].st = "not_found", ![r].tx = TRUE]
    /\ UNCHANGED <<gam_return, calls, load_vars, id_vars, db_session, db_count,
                   db_evaluations, db_created, conn, metrics_vars, evaluators, pc,
                   cmp_vars, single_vars, bulk_vars>>

\* create_evaluation lines 44 and 106: the awaited evaluation raises
CreateFails(r) ==
    /\ pc = "serving"
    /\ requests[r].kind = "create"
    /\ requests[r].st = "evaluating"
    /\ ~LoopTaken(r)
    /\ requests' = [requests EXCEPT ![r].st = "raising"]
    /\ UNCHANGED <<gam_return, calls, load_vars, id_vars, db_session, db_count,
                   db_evaluations, db_created, conn, metrics_vars, evaluators, pc,
                   cmp_vars, single_vars, bulk_vars>>

\* create_evaluation lines 44-76, the first statement of the commit's
\* flush: the awaited evaluation has returned a result whose id it read off
\* the millisecond clock (evaluation_service.py line 104), the row was added
\* and the loaded session object's evaluation_count set to its loaded
\* value + 1 (line 74); the session row is updated.  When the row is not
\* there the update matches nothing and raises
CreateUpdateSession(r) ==
    /\ pc = "serving"
    /\ requests[r].kind = "create"
    /\ requests[r].st = "evaluating"
    /\ ~LoopTaken(r)
    /\ IF conn.session
       THEN /\ conn' = [conn EXCEPT !.count = requests[r].read_count + 1]
            /\ requests' = [requests EXCEPT ![r].st = "updated",
                                            ![r].target = EvalId(clock)]
       ELSE /\ requests' = [requests EXCEPT ![r].st = "raising",
                                            ![r].target = EvalId(clock)]
            /\ UNCHANGED conn
    /\ UNCHANGED <<gam_return, calls, load_vars, id_vars, db_session, db_count,
                   db_evaluations, db_created, metrics_vars, evaluators, pc,
                   cmp_vars, single_vars, bulk_vars>>

\* create_evaluation line 76, the second statement of the flush: the
\* evaluation row is inserted.  The id is the table's primary key: when a
\* row with the id is there already (an evaluation that ended in the same
\* millisecond) the insert raises
CreateInsert(r) ==
    /\ pc = "serving"
    /\ requests[r].kind = "create"
    /\ requests[r].st = "updated"
    /\ IF requests[r].target \in conn.evaluations
       THEN /\ requests' = [requests EXCEPT ![r].st = "raising"]
            /\ UNCHANGED conn
       ELSE /\ conn' = [conn EXCEPT !.evaluations = @ \cup {requests[r].target}]
            /\ requests' = [requests EXCEPT ![r].st = "flushed"]
    /\ UNCHANGED <<gam_return, calls, load_vars, id_vars, db_session, db_count,
                   db_evaluations, db_created, metrics_vars, evaluators, pc,
                   cmp_vars, single_vars, bulk_vars>>

\* create_evaluation lines 77-102, after the commit: the row is read again
\* (db.refresh) and the response is built from it.  The refresh raises when
\* the row is not there; the response raises when the result's
\* framework_scores do not fit the response schema (evaluation_service.py
\* line 181, models/schemas.py line 110)
CreateRespond(r) ==
    /\ pc = "serving"
    /\ requests[r].kind = "create"
    /\ requests[r].st = "stored"
    /\ \E valid_response \in BOOLEAN :
          requests' = [requests EXCEPT
              ![r].tx = TRUE,
              ![r].st = IF requests[r].target \in conn.evaluations /\ valid_response
                        THEN "done" ELSE "raising"]
    /\ UNCHANGED <<gam_return, calls, load_vars, id_vars, db_session, db_count,
                   db_evaluations, db_created, conn, metrics_vars, evaluators, pc,
                   cmp_vars, single_vars, bulk_vars>>

\* delete_evaluation lines 352-358: the evaluation row is looked up; an
\* unknown id is answered with status 404
DeleteFindEvaluation(r) ==
    /\ pc = "serving"
    /\ requests[r].kind = "delete"
    /\ requests[r].st = "received"
    /\ requests' =
          [requests EXCEPT
              ![r].tx = TRUE,
              ![r].st = IF requests[r].target \in conn.evaluations
                        THEN "found" ELSE "not_found"]
    /\ UNCHANGED <<gam_return, calls, load_vars, id_vars, db_session, db_count,
                   db_evaluations, db_created, conn, metrics_vars, evaluators, pc,
                   cmp_vars, single_vars, bulk_vars>>

\* delete_evaluation lines 360-366: the row is marked for deletion in the
\* request's own database session (nothing is written yet) and the session
\* row, if it is there, is loaded
DeleteLoadSession(r) ==
    /\ pc = "serving"
    /\ requests[r].kind = "delete"
    /\ requests[r].st = "found"
    /\ requests' = [requests EXCEPT ![r].st = "loaded",
                                    ![r].session_loaded = conn.session,
                                    ![r].read_count = conn.count]
    /\ UNCHANGED <<gam_return, calls, load_vars, id_vars, db_session, db_count,
                   db_evaluations, db_created, conn, metrics_vars, evaluators, pc,
                   cmp_vars, single_vars, bulk_vars>>

\* line 368 and the unit of work of the flush: an attribute assigned the
\* value it was loaded with has no net change and is left out of the UPDATE
WrittenCount(loaded, stored) ==
    IF Max(0, loaded - 1) # loaded THEN Max(0, loaded - 1) ELSE stored

\* delete_evaluation lines 367-371, the first statement of the commit's
\* flush: the loaded session object's evaluation_count was set to its
\* loaded value - 1, not below 0, and its updated_at to now; the session
\* row is updated.  When the row is not there the update matches nothing
\* and raises; when no session was loaded there is no update
DeleteUpdateSession(r) ==
    /\ pc = "serving"
    /\ requests[r].kind = "delete"
    /\ requests[r].st = "loaded"
    /\ IF requests[r].session_loaded /\ ~conn.session
       THEN /\ requests' = [requests EXCEPT ![r].st = "raising"]
            /\ UNCHANGED conn
       ELSE /\ conn' = IF requests[r].session_loaded
                       THEN [conn EXCEPT
                               !.count = WrittenCount(requests[r].read_count, @)]
                       ELSE conn
            /\ requests' = [requests EXCEPT ![r].st = "updated"]
    /\ UNCHANGED <<gam_return, calls, load_vars, id_vars, db_session, db_count,
                   db_evaluations, db_created, metrics_vars, evaluators, pc,
                   cmp_vars, single_vars, bulk_vars>>

\* delete_evaluation line 371, the second statement of the flush: the
\* evaluation row is deleted (a row that is not there is passed over)
DeleteRow(r) ==
    /\ pc = "serving"
    /\ requests[r].kind = "delete"
    /\ requests[r].st = "updated"
    /\ conn' = [conn EXCEPT !.evaluations = @ \ {requests[r].target}]
    /\ requests' = [requests EXCEPT ![r].st = "flushed"]
    /\ UNCHANGED <<gam_return, calls, load_vars, id_vars, db_session, db_count,
                   db_evaluations, db_created, metrics_vars, evaluators, pc,
                   cmp_vars, single_vars, bulk_vars>>

\* update_evaluation lines 187-193: the evaluation row is loaded; an
\* unknown id is answered with status 404
UpdateEvaluationFind(r) ==
    /\ pc = "serving"
    /\ requests[r].kind = "update_evaluation"
    /\ requests[r].st = "received"
    /\ requests' =
          [requests EXCEPT
              ![r].tx = TRUE,
              ![r].st = IF requests[r].target \in conn.evaluations
                        THEN "found" ELSE "not_found"]
    /\ UNCHANGED <<gam_return, calls, load_vars, id_vars, db_session, db_count,
                   db_evaluations, db_created, conn, metrics_vars, evaluators, pc,
                   cmp_vars, single_vars, bulk_vars>>

\* update_evaluation lines 195-213, the statement of the commit's flush:
\* the loaded row's scores, notes and updated_at were set; the row is
\* updated.  When the row is not there the update matches nothing and
\* raises
UpdateEvaluationRow(r) ==
    /\ pc = "serving"
    /\ requests[r].kind = "update_evaluation"
    /\ requests[r].st = "found"
    /\ requests' = [requests EXCEPT
          ![r].st = IF requests[r].target \in conn.evaluations
                    THEN "flushed" ELSE "raising"]
    /\ UNCHANGED <<gam_return, calls, load_vars, id_vars, db_session, db_count,
                   db_evaluations, db_created, conn, metrics_vars, evaluators, pc,
                   cmp_vars, single_vars, bulk_vars>>

\* update_evaluation lines 214-251, after the commit: the row is read again
\* (db.refresh) and the response is built from it.  The refresh raises when
\* the row is not there; the response raises when the row's scores do not
\* fit ManualScores (models/schemas.py lines 79-84) or its framework_scores
\* the response schema
UpdateEvaluationRespond(r) ==
    /\ pc = "serving"
    /\ requests[r].kind = "update_evaluation"
    /\ requests[r].st = "stored"
    /\ \E valid_response \in BOOLEAN :
          requests' = [requests EXCEPT
              ![r].tx = TRUE,
              ![r].st = IF requests[r].target \in conn.evaluations /\ valid_response
                        THEN "done" ELSE "raising"]
    /\ UNCHANGED <<gam_return, calls, load_vars, id_vars, db_session, db_count,
                   db_evaluations, db_created, conn, metrics_vars, evaluators, pc,
                   cmp_vars, single_vars, bulk_vars>>

\* delete_session (routers/sessions.py) lines 241-247: the session row is
\* looked up; without it the answer is status 404
DeleteSessionFind(r) ==
    /\ pc = "serving"
    /\ requests[r].kind = "delete_session"
    /\ requests[r].st = "received"
    /\ requests' =
          IF conn.session
          THEN [requests EXCEPT ![r].st = "found", ![r].tx = TRUE,
                                ![r].session_loaded = TRUE]
          ELSE [requests EXCEPT ![r].st = "not_found", ![r].tx = TRUE]
    /\ UNCHANGED <<gam_return, calls, load_vars, id_vars, db_session, db_count,
                   db_evaluations, db_created, conn, metrics_vars, evaluators, pc,
                   cmp_vars, single_vars, bulk_vars>>

\* delete_session line 250: db.delete(session) loads the session's
\* evaluation rows for the cascade of Session.evaluations
\* (models/session_models.py line 44) and marks them and the session for
\* deletion in the request's own database session
DeleteSessionMark(r) ==
    /\ pc = "serving"
    /\ requests[r].kind = "delete_session"
    /\ requests[r].st = "found"
    /\ requests' = [requests EXCEPT ![r].st = "marked",
                                    ![r].cascade = conn.evaluations]
    /\ UNCHANGED <<gam_return, calls, load_vars, id_vars, db_session, db_count,
                   db_evaluations, db_created, conn, metrics_vars, evaluators, pc,
                   cmp_vars, single_vars, bulk_vars>>

\* delete_session line 251, the first statements of the commit's flush:
\* the evaluation rows loaded for the cascade are deleted (rows that are
\* not there are passed over)
DeleteSessionRows(r) ==
    /\ pc = "serving"
    /\ requests[r].kind = "delete_session"
    /\ requests[r].st = "marked"
    /\ conn' = [conn EXCEPT !.evaluations = @ \ requests[r].cascade]
    /\ requests' = [requests EXCEPT ![r].st = "rows_deleted"]
    /\ UNCHANGED <<gam_return, calls, load_vars, id_vars, db_session, db_count,
                   db_evaluations, db_created, metrics_vars, evaluators, pc,
                   cmp_vars, single_vars, bulk_vars>>

\* delete_session line 251, the last statement of the flush: the session
\* row is deleted (passed over when it is not there).  SQLite does not
\* enforce the foreign key unless asked to, and database.py does not ask,
\* so evaluation rows inserted after line 250 stay
DeleteSessionRow(r) ==
    /\ pc = "serving"
    /\ requests[r].kind = "delete_session"
    /\ requests[r].st = "rows_deleted"
    /\ conn' = [conn EXCEPT !.session = FALSE, !.count = 0]
    /\ requests' = [requests EXCEPT ![r].st = "flushed"]
    /\ UNCHANGED <<gam_return, calls, load_vars, id_vars, db_session, db_count,
                   db_evaluations, db_created, metrics_vars, evaluators, pc,
                   cmp_vars, single_vars, bulk_vars>>

\* update_session lines 179-185, archive_session lines 276-282 and
\* restore_session lines 312-318: the session row is loaded; without it the
\* answer is status 404
SessionFind(r) ==
    /\ pc = "serving"
    /\ requests[r].kind \in {"update_session", "archive_session", "restore_session"}
    /\ requests[r].st = "received"
    /\ requests' =
          IF conn.session
          THEN [requests EXCEPT ![r].st = "found", ![r].tx = TRUE,
                                ![r].session_loaded = TRUE]
          ELSE [requests EXCEPT ![r].st = "not_found", ![r].tx = TRUE]
    /\ UNCHANGED <<gam_return, calls, load_vars, id_vars, db_session, db_count,
                   db_evaluations, db_created, conn, metrics_vars, evaluators, pc,
                   cmp_vars, single_vars, bulk_vars>>

\* update_session lines 187-197, archive_session lines 284-287 and
\* restore_session lines 320-323, the statement of the commit's flush: the
\* loaded session object's name, description, metadata or is_archived and
\* its updated_at were set, its evaluation_count was not; the session row
\* is updated.  When the row is not there the update matches nothing and
\* raises
SessionUpdate(r) ==
    /\ pc = "serving"
    /\ requests[r].kind \in {"update_session", "archive_session", "restore_session"}
    /\ requests[r].st = "found"
    /\ requests' = [requests EXCEPT
          ![r].st = IF conn.session THEN "flushed" ELSE "raising"]
    /\ UNCHANGED <<gam_return, calls, load_vars, id_vars, db_session, db_count,
                   db_evaluations, db_created, conn, metrics_vars, evaluators, pc,
                   cmp_vars, single_vars, bulk_vars>>

\* update_session lines 198-220, after the commit: the session row is read
\* again (db.refresh), which raises when it is not there, and the
\* evaluation rows are counted for the response
UpdateSessionRespond(r) ==
    /\ pc = "serving"
    /\ requests[r].kind = "update_session"
    /\ requests[r].st = "stored"
    /\ requests' = [requests EXCEPT
          ![r].tx = TRUE,
          ![r].st = IF conn.session THEN "done" ELSE "raising"]
    /\ UNCHANGED <<gam_return, calls, load_vars, id_vars, db_session, db_count,
                   db_evaluations, db_created, conn, metrics_vars, evaluators, pc,
                   cmp_vars, single_vars, bulk_vars>>

\* create_session lines 34-41, the statement of the commit's flush: the
\* row of another, new session is inserted
CreateSessionInsert(r) ==
    /\ pc = "serving"
    /\ requests[r].kind = "create_session"
    /\ requests[r].st = "received"
    /\ conn' = [conn EXCEPT !.created = @ \cup {r}]
    /\ requests' = [requests EXCEPT ![r].st = "flushed", ![r].tx = TRUE]
    /\ UNCHANGED <<gam_return, calls, load_vars, id_vars, db_session, db_count,
                   db_evaluations, db_created, metrics_vars, evaluators, pc,
                   cmp_vars, single_vars, bulk_vars>>

\* create_session lines 42-55, after the commit: the new row is read again
\* (db.refresh), which raises when it is not there
CreateSessionRespond(r) ==
    /\ pc = "serving"
    /\ requests[r].kind = "create_session"
    /\ requests[r].st = "stored"
    /\ requests' = [requests EXCEPT
          ![r].tx = TRUE,
          ![r].st = IF r \in conn.created THEN "done" ELSE "raising"]
    /\ UNCHANGED <<gam_return, calls, load_vars, id_vars, db_session, db_count,
                   db_evaluations, db_created, conn, metrics_vars, evaluators, pc,
                   cmp_vars, single_vars, bulk_vars>>

\* get_session lines 132-165: the session row and its evaluation rows are
\* read; nothing is written.  Without the session row the answer is status
\* 404
GetSession(r) ==
    /\ pc = "serving"
    /\ requests[r].kind = "get_session"
    /\ requests[r].st = "received"
    /\ requests' = [requests EXCEPT
          ![r].tx = TRUE,
          ![r].st = IF conn.session THEN "done" ELSE "not_found"]
    /\ UNCHANGED <<gam_return, calls, load_vars, id_vars, db_session, db_count,
                   db_evaluations, db_created, conn, metrics_vars, evaluators, pc,
                   cmp_vars, single_vars, bulk_vars>>

\* db.commit() after the flush (evaluations.py lines 76, 213 and 371,
\* sessions.py lines 41, 197, 251, 287 and 323): the connection commits;
\* everything it holds is stored
RequestCommit(r) ==
    /\ pc = "serving"
    /\ requests[r].st = "flushed"
    /\ db_session' = conn.session
    /\ db_count' = conn.count
    /\ db_evaluations' = conn.evaluations
    /\ db_created' = conn.created
    /\ requests' = [requests EXCEPT ![r].st = "committed"]
    /\ UNCHANGED <<gam_return, calls, load_vars, id_vars, conn, metrics_vars,
                   evaluators, pc, cmp_vars, single_vars, bulk_vars>>

\* the end of db.commit(): the request's database session gives the
\* connection back to the pool, which rolls it back; the handler goes on:
\* to its db.refresh (create_evaluation, update_evaluation, update_session,
\* create_session) or, without one, to its answer
RequestRelease(r) ==
    /\ pc = "serving"
    /\ requests[r].st = "committed"
    /\ conn' = Stored
    /\ requests' = [requests EXCEPT
          ![r].tx = FALSE,
          ![r].st = IF requests[r].kind \in {"create", "update_evaluation",
                                              "update_session", "create_session"}
                    THEN "stored" ELSE "done"]
    /\ UNCHANGED <<gam_return, calls, load_vars, id_vars, db_session, db_count,
                   db_evaluations, db_created, metrics_vars, evaluators, pc,
                   cmp_vars, single_vars, bulk_vars>>

\* the except branches (evaluations.py lines 106-112, 256-262 and 379-385,
\* sessions.py lines 57-63, 224-230, 258-265, 295-301 and 331-337):
\* db.rollback() rolls the connection back and the answer is status 500
RequestRollback(r) ==
    /\ pc = "serving"
    /\ requests[r].st = "raising"
    /\ conn' = Stored
    /\ requests' = [requests EXCEPT ![r].st = "failed", ![r].tx = FALSE]
    /\ UNCHANGED <<gam_return, calls, load_vars, id_vars, db_session, db_count,
                   db_evaluations, db_created, metrics_vars, evaluators, pc,
                   cmp_vars, single_vars, bulk_vars>>

Answered(request) == request.st \in {"done", "failed", "not_found"}

\* get_db (database.py): after the answer db.close() ends the transaction
\* the request's database session is still in, which rolls the connection
\* back
RequestClose(r) ==
    /\ pc = "serving"
    /\ Answered(requests[r])
    /\ requests[r].tx
    /\ conn' = Stored
    /\ requests' = [requests EXCEPT ![r].tx = FALSE]
    /\ UNCHANGED <<gam_return, calls, load_vars, id_vars, db_session, db_count,
                   db_evaluations, db_created, metrics_vars, evaluators, pc,
                   cmp_vars, single_vars, bulk_vars>>

\* the session is stored and its evaluation_count is the number of its rows
\* when the requests arrive; the connection holds nothing else; the
\* requests are listed in the order of RequestPool (their order in the
\* list means nothing: they run interleaved)
RouterInit ==
    /\ evaluators = <<"basic">>
    /\ pc = "serving"
    /\ db_session = TRUE
    /\ db_evaluations \in StoredBefore
    /\ db_count = Cardinality(db_evaluations)
    /\ db_created = {}
    /\ conn = Stored
    /\ \E n \in 1..MaxRequests :
          \E pick \in [1..n -> DOMAIN RequestPool] :
              /\ \A i \in 1..(n - 1) : pick[i] <= pick[i + 1]
              /\ requests = [i \in 1..n |-> RequestPool[pick[i]]]
    /\ clock = 0 /\ id_tasks = <<>> /\ id_return = Pending
    /\ gam_return = Pending /\ calls = <<>> /\ LoadIdle
    /\ MetricsIdle
    /\ CompareIdle
    /\ SingleIdle
    /\ BulkIdle

RouterNext ==
    \/ ClockTick
    \/ \E r \in DOMAIN requests : CreateReadSession(r)
    \/ \E r \in DOMAIN requests : CreateFails(r)
    \/ \E r \in DOMAIN requests : CreateUpdateSession(r)
    \/ \E r \in DOMAIN requests : CreateInsert(r)
    \/ \E r \in DOMAIN requests : CreateRespond(r)
    \/ \E r \in DOMAIN requests : DeleteFindEvaluation(r)
    \/ \E r \in DOMAIN requests : DeleteLoadSession(r)
    \/ \E r \in DOMAIN requests : DeleteUpdateSession(r)
    \/ \E r \in DOMAIN requests : DeleteRow(r)
    \/ \E r \in DOMAIN requests : UpdateEvaluationFind(r)
    \/ \E r \in DOMAIN requests : UpdateEvaluationRow(r)
    \/ \E r \in DOMAIN requests : UpdateEvaluationRespond(r)
    \/ \E r \in DOMAIN requests : DeleteSessionFind(r)
    \/ \E r \in DOMAIN requests : DeleteSessionMark(r)
    \/ \E r \in DOMAIN requests : DeleteSessionRows(r)
    \/ \E r \in DOMAIN requests : DeleteSessionRow(r)
    \/ \E r \in DOMAIN requests : SessionFind(r)
    \/ \E r \in DOMAIN requests : SessionUpdate(r)
    \/ \E r \in DOMAIN requests : UpdateSessionRespond(r)
    \/ \E r \in DOMAIN requests : CreateSessionInsert(r)
    \/ \E r \in DOMAIN requests : CreateSessionRespond(r)
    \/ \E r \in DOMAIN requests : GetSession(r)
    \/ \E r \in DOMAIN requests : RequestCommit(r)
    \/ \E r \in DOMAIN requests : RequestRelease(r)
    \/ \E r \in DOMAIN requests : RequestRollback(r)
    \/ \E r \in DOMAIN requests : RequestClose(r)

SpecRouter == RouterInit /\ [][RouterNext]_vars

(***************************************************************************)
(* Properties of evaluate_bulk                                             *)
(***************************************************************************)
BulkReturned == pc = "bulk_returned"
\* no callback, or one whose call returns
CallbackSucceeds == ~CallbackRaises(progress_callback)
FailedItems == { k \in DOMAIN bulk_tasks :
                    bulk_tasks[k].st = "done" /\ IsException(bulk_tasks[k].result) }

\* C3: with no callback or one that succeeds, evaluate_bulk over k items
\* returns exactly k records; every item was evaluated; the record of a
\* failed item is an error record with status=failed and the item's error,
\* the record of every other item is that item's own result.
C3_BulkIsolatesItemFailures ==
    (BulkReturned /\ CallbackSucceeds) =>
        /\ Len(bulk_return.v) = Len(evaluations)
        /\ \A k \in DOMAIN evaluations :
              /\ bulk_tasks[k].st = "done"
              /\ IF k \in FailedItems
                 THEN /\ bulk_return.v[k].status = "failed"
                      /\ bulk_return.v[k].error = bulk_tasks[k].result.msg
                 ELSE bulk_return.v[k] = bulk_tasks[k].result

\* C3 witness: an item of the first batch failed, an item of the same batch
\* and an item of a later batch succeeded, and a callback was called.
C3_Witness ==
    /\ BulkReturned
    /\ progress_callback = "async_ok"
    /\ batch_size = 2
    /\ Len(evaluations) >= 3
    /\ 1 \in FailedItems
    /\ bulk_return.v[1].status = "failed"
    /\ bulk_return.v[2].status = "completed"
    /\ bulk_return.v[3].status = "completed"

\* the input item a record belongs to
ItemOfRecord(record) ==
    IF record.status = "failed" THEN record.evaluation_data
    ELSE EvaluationCreate(record.session_id, record.prompt, record.model_name)

\* C4: with no callback or one that succeeds, the record at every index of
\* the output is the record of the input item at that index.
C4_BulkPreservesInputOrder ==
    (BulkReturned /\ CallbackSucceeds) =>
        /\ DOMAIN bulk_return.v = DOMAIN evaluations
        /\ \A k \in DOMAIN evaluations : ItemOfRecord(bulk_return.v[k]) = evaluations[k]

\* C4 witness: the second item of a batch finished before the first, one of
\* the two failed, and the output is still in input order.
C4_Witness ==
    /\ BulkReturned
    /\ CallbackSucceeds
    /\ Len(done_order) >= 2
    /\ done_order[1] = 2 /\ done_order[2] = 1
    /\ 2 \in FailedItems
    /\ ItemOfRecord(bulk_return.v[1]) = evaluations[1]
    /\ ItemOfRecord(bulk_return.v[2]) = evaluations[2]

(***************************************************************************)
(* Properties of evaluate_single                                           *)
(***************************************************************************)
SingleEnded == pc \in {"single_returned", "single_raised"}
\* the frameworks (registry indexes) whose run raised
FailedFrameworks ==
    { i \in DOMAIN fw_tasks : fw_tasks[i].st = "done" /\ IsException(fw_tasks[i].result) }
\* the basic framework returned something that is no mapping
BasicMalformed ==
    \E i \in DOMAIN fw_tasks :
        /\ evaluators[i] = "basic"
        /\ fw_tasks[i].st = "done"
        /\ fw_tasks[i].result.t \notin {"dict", "exc"}
ErrorEntry(exception) == Dict([k \in {"error"} |-> Str(exception.msg)])

\* C1: when the runs of a non-empty set F of frameworks raise (and every
\* returned value is well-formed), the fan-out returns normally and
\* framework_scores holds an error entry exactly for the frameworks of F and
\* the produced result for every other framework.
C1_FrameworkFailuresAreIsolated ==
    (SingleEnded /\ FailedFrameworks # {} /\ ~BasicMalformed) =>
        /\ pc = "single_returned"
        /\ \A i \in DOMAIN fw_tasks :
              es_return.framework_scores[evaluators[i]] =
                  IF i \in FailedFrameworks
                  THEN ErrorEntry(fw_tasks[i].result)
                  ELSE fw_tasks[i].result

\* C1 witness: every framework of a registry of four failed and the call
\* returned.
C1_Witness ==
    /\ pc = "single_returned"
    /\ Len(evaluators) = 4
    /\ FailedFrameworks = DOMAIN fw_tasks

C1_WitnessPartial ==
    /\ pc = "single_returned"
    /\ Len(evaluators) >= 3
    /\ Cardinality(FailedFrameworks) = 1
    /\ \A i \in DOMAIN fw_tasks : i \notin FailedFrameworks => IsDict(fw_tasks[i].result)

\* C5: evaluate_single ends only when every dispatched framework task has
\* finished, and every finished task's result is in the returned
\* framework_scores, whichever task failed and whenever.
C5_WaitsForAllDispatches ==
    /\ SingleEnded => \A i \in DOMAIN fw_tasks : fw_tasks[i].st = "done"
    /\ SingleEnded => Len(fw_tasks) = Len(evaluators)
    /\ pc = "single_returned" =>
          \A i \in DOMAIN fw_tasks :
              /\ evaluators[i] \in DOMAIN es_return.framework_scores
              /\ ~IsException(fw_tasks[i].result) =>
                    es_return.framework_scores[evaluators[i]] = fw_tasks[i].result

\* C5 witness: the first task to finish failed, a sibling finished after it
\* and its result is recorded.
C5_Witness ==
    /\ pc = "single_returned"
    /\ first_done \in FailedFrameworks
    /\ \E j \in DOMAIN fw_tasks :
          /\ j # first_done
          /\ IsDict(fw_tasks[j].result)
          /\ es_return.framework_scores[evaluators[j]] = fw_tasks[j].result

\* C6: the merged result depends on the outcomes only: framework_scores has
\* exactly the registry's names as keys, and automatic_metrics is the basic
\* framework's result when it succeeded and empty otherwise.
C6_MergeIsOrderIndependent ==
    pc = "single_returned" =>
        /\ DOMAIN es_return.framework_scores =
              { evaluators[i] : i \in DOMAIN evaluators }
        /\ es_return.automatic_metrics =
              IF \E i \in DOMAIN evaluators :
                    evaluators[i] = "basic" /\ IsDict(fw_tasks[i].result)
              THEN LET b == CHOOSE i \in DOMAIN evaluators : evaluators[i] = "basic"
                   IN fw_tasks[b].result.v
              ELSE EmptyDict

\* C6 witness: the tasks finished out of registry order, basic succeeded and
\* so did another framework, whose metrics stay out of automatic_metrics.
C6_Witness ==
    /\ pc = "single_returned"
    /\ first_done = Len(evaluators)
    /\ Len(evaluators) >= 2
    /\ evaluators[first_done] = "basic"
    /\ IsDict(fw_tasks[first_done].result)
    /\ IsDict(fw_tasks[1].result)
    /\ fw_tasks[1].result # fw_tasks[first_done].result
    /\ es_return.automatic_metrics = fw_tasks[first_done].result.v

(***************************************************************************)
(* Properties of compare_models                                            *)
(***************************************************************************)
CompareReturned == pc = "compare_returned"
Comparisons == cmp_return.comparisons
CompletedIndexes == { i \in DOMAIN Comparisons : Comparisons[i].status = "completed" }
\* the generation of models[i] failed: evaluate_single recorded the error
\* in the model metadata of its result, or raised
GenerationFailed(i) ==
    /\ cmp_tasks[i].st = "done"
    /\ IsDict(cmp_tasks[i].result)
    /\ "error" \in DOMAIN cmp_tasks[i].result.model_metadata

\* C2: a model whose generation failed has a comparison entry with
\* status=failed and is not the winner.
C2_GenerationFailureIsFailedEntry ==
    CompareReturned =>
        \A i \in DOMAIN models :
            GenerationFailed(i) =>
                /\ Comparisons[i].status = "failed"
                /\ cmp_return.winner.t = "none" \/ cmp_return.winner.v # models[i]

\* the composite score of entry i, as a fraction
ScoreOf(i) == overall_score(Comparisons[i])
TimeOf(i) == Comparisons[i].response_time.v
CostOf(i) == IF Comparisons[i].cost.t = "num" THEN Comparisons[i].cost.v ELSE 0
TopScore == { i \in CompletedIndexes :
                \A j \in CompletedIndexes : ~FracLess(ScoreOf(i), ScoreOf(j)) }
Fastest == { i \in TopScore : \A j \in TopScore : TimeOf(i) <= TimeOf(j) }
Cheapest == { i \in Fastest : \A j \in Fastest : CostOf(i) <= CostOf(j) }

\* C7: the winner has the maximum composite score among the completed
\* models, among those the minimum response time, among those the minimum
\* cost.
C7_WinnerIsLexicographicBest ==
    (CompareReturned /\ CompletedIndexes # {}) =>
        \E w \in Cheapest : cmp_return.winner = Str(models[w])

\* C7 witness: two completed models tie on the score, and the winner is the
\* faster one although it costs more.
C7_Witness ==
    /\ CompareReturned
    /\ \E w, l \in CompletedIndexes :
          /\ cmp_return.winner = Str(models[w])
          /\ FracEq(ScoreOf(w), ScoreOf(l))
          /\ ScoreOf(w)[1] > 0
          /\ TimeOf(w) < TimeOf(l)
          /\ CostOf(w) > CostOf(l)

\* C8: one comparison entry per requested model, in request order; the entry
\* of a model whose evaluation raised is a failed entry, every other entry
\* is completed; compare_models raises only before any evaluation started.
C8_OneEntryPerModelInOrder ==
    /\ CompareReturned =>
          /\ Len(Comparisons) = Len(models)
          /\ \A i \in DOMAIN models :
                /\ Comparisons[i].model_name = models[i]
                /\ Comparisons[i].status =
                      IF IsException(cmp_tasks[i].result) THEN "failed" ELSE "completed"
    /\ pc = "compare_raised" => cmp_tasks = <<>>

\* C8 witness: the first model's evaluation raised, the second completed.
C8_Witness ==
    /\ CompareReturned
    /\ Len(models) >= 2
    /\ IsException(cmp_tasks[1].result)
    /\ Comparisons[1].status = "failed"
    /\ Comparisons[2].status = "completed"

\* C9: the winner is null exactly when no entry is completed; otherwise it
\* is the name of a completed model.
C9_WinnerNullIffNoneCompleted ==
    CompareReturned =>
        /\ cmp_return.winner.t = "none" <=> CompletedIndexes = {}
        /\ cmp_return.winner.t # "none" =>
              \E i \in CompletedIndexes : cmp_return.winner = Str(models[i])

\* C9 witness: one model failed, one completed, and the completed one wins.
C9_Witness ==
    /\ CompareReturned
    /\ \E i, j \in DOMAIN models :
          /\ Comparisons[i].status = "failed"
          /\ Comparisons[j].status = "completed"
          /\ cmp_return.winner = Str(models[j])

C9_WitnessNull ==
    /\ CompareReturned
    /\ models # <<>>
    /\ cmp_return.winner.t = "none"

\* the places of entry c that hold a numeric value: <<"metrics", key>> and
\* <<framework, key>> for the frameworks whose entry is a dict
NumericPlaces(c) ==
    { <<"metrics", k>> : k \in { x \in DOMAIN c.metrics : c.metrics[x].t = "num" } }
    \cup UNION { { <<f, k>> : k \in { x \in DOMAIN c.framework_scores[f].v :
                                          c.framework_scores[f].v[x].t = "num" } } :
                 f \in { g \in DOMAIN c.framework_scores :
                            c.framework_scores[g].t = "dict" } }
PlaceValue(c, pl) ==
    IF pl[1] = "metrics" THEN c.metrics[pl[2]].v
    ELSE c.framework_scores[pl[1]].v[pl[2]].v
RECURSIVE SumPlaces(_, _)
SumPlaces(c, places) ==
    IF places = {} THEN 0
    ELSE LET pl == CHOOSE x \in places : TRUE
         IN PlaceValue(c, pl) + SumPlaces(c, places \ {pl})
CompletedEntries == SelectSeq(Comparisons, IsCompleted)

\* C10: the composite score of every completed model is the mean of the
\* numeric values of its automatic metrics and of its framework entries
\* (error entries hold no numeric value), and 0 when there is none.
C10_CompositeIsMeanOfNumericValues ==
    CompareReturned =>
        /\ Len(model_scores) = Len(CompletedEntries)
        /\ \A i \in DOMAIN model_scores :
              LET c == CompletedEntries[i]
                  places == NumericPlaces(c)
              IN /\ model_scores[i].model = c.model_name
                 /\ model_scores[i].score =
                       IF places = {} THEN <<0, 1>>
                       ELSE <<SumPlaces(c, places), Cardinality(places)>>

\* C10 witness: a completed model with a numeric metric, a null value, a
\* nested (non-numeric) value and a whole-framework error entry, whose
\* composite is positive.
C10_Witness ==
    /\ CompareReturned
    /\ \E i \in DOMAIN model_scores :
          LET c == CompletedEntries[i]
          IN /\ model_scores[i].score[1] > 0
             /\ \E f, g, h \in DOMAIN c.framework_scores :
                   /\ c.framework_scores[f].t = "dict"
                   /\ "error" \in DOMAIN c.framework_scores[f].v
                   /\ c.framework_scores[g].t = "dict"
                   /\ \E k \in DOMAIN c.framework_scores[g].v :
                         c.framework_scores[g].v[k].t = "none"
                   /\ c.framework_scores[h].t = "dict"
                   /\ \E k \in DOMAIN c.framework_scores[h].v :
                         c.framework_scores[h].v[k].t = "dict"

\* C10 witness: a completed model without any numeric value scores 0.
C10_WitnessZero ==
    /\ CompareReturned
    /\ \E i \in DOMAIN model_scores :
          /\ NumericPlaces(CompletedEntries[i]) = {}
          /\ CompletedEntries[i].framework_scores # <<>>
          /\ model_scores[i].score = <<0, 1>>

\* the places of an entry that hold the numeric values its frameworks
\* produced, each value at one place: the framework entries (what 'basic'
\* produced is the entry of 'basic'; the automatic metrics repeat it)
ProducedPlaces(c) == { pl \in NumericPlaces(c) : pl[1] # "metrics" }

\* C29: in the composite score every metric value is counted exactly once:
\* the score of a completed model is the mean of the numeric values its
\* frameworks produced, a value of 'basic' weighing as much as a value of
\* any other framework.
C29_EveryMetricValueCountsOnce ==
    CompareReturned =>
        \A i \in DOMAIN model_scores :
            LET c == CompletedEntries[i]
                places == ProducedPlaces(c)
            IN FracEq(model_scores[i].score,
                      IF places = {} THEN <<0, 1>>
                      ELSE <<SumPlaces(c, places), Cardinality(places)>>)

\* two model scores tie: equal composite score, response time and cost (a
\* missing cost is 0 in the score entry)
Tied(a, b) ==
    /\ FracEq(a.score, b.score)
    /\ a.response_time = b.response_time
    /\ a.cost = b.cost
\* the place of a model in the models argument
PositionOf(name) == CHOOSE p \in DOMAIN models : models[p] = name
WinnerScore == model_scores[CHOOSE i \in DOMAIN model_scores :
                                model_scores[i].model = cmp_return.winner.v]

\* C30: when several completed models tie on composite score, response time
\* and cost, the winner is the tied model that comes first in the models
\* argument, whatever order the concurrent evaluations finished in.
C30_FirstOfTiedModelsWins ==
    (CompareReturned /\ cmp_return.winner # NoneV) =>
        \A j \in DOMAIN model_scores :
            Tied(model_scores[j], WinnerScore) =>
                PositionOf(cmp_return.winner.v) <= PositionOf(model_scores[j].model)

\* C30 witness: two completed models with a positive composite score tie on
\* score, response time and cost, and the first of them is the winner.
C30_Witness ==
    /\ CompareReturned
    /\ Len(model_scores) = 2
    /\ Tied(model_scores[1], model_scores[2])
    /\ model_scores[1].score[1] > 0
    /\ model_scores[1].cost = 1
    /\ cmp_return.winner = Str(models[1])


(***************************************************************************)
(* Properties of BasicEvaluator.evaluate                                   *)
(***************************************************************************)
EngineReturned == pc = "engine_returned"
Question == DictGet(be_context, "question", Str(<<>>))
Answer == DictGet(be_context, "answer", Str(<<>>))
ExpectedAnswer == DictGet(be_context, "expected_answer", Str(<<>>))
ContextText == DictGet(be_context, "context", Str(<<>>))
Catalog == SetOf(available_metrics)
\* the selected names that are in the catalog
SelectedCatalog ==
    IF be_selected.t = "list" /\ be_selected.v # <<>>
    THEN SetOf(be_selected.v) \cap Catalog
    ELSE Catalog
Returned == be_return.v

\* the scorer behind a selected metric is called with a question that makes
\* it raise (relevance is the one scorer that reads the question)
ScorerFailed ==
    /\ "relevance" \in SelectedCatalog
    /\ Truthy(Question) /\ Truthy(Answer) /\ Question.t # "str"

\* what the scorer of a metric returns on the inputs of the call
ScorerValue(m) ==
    CASE m \in {"rouge1", "rouge2", "rougeL"} -> calculate_rouge(Answer, ExpectedAnswer)[m]
      [] m = "bleu" -> calculate_bleu(Answer, ExpectedAnswer)
      [] m = "meteor_approx" -> calculate_meteor_approx(Answer, ExpectedAnswer)
      [] m = "coherence" -> calculate_coherence(Answer)
      [] m = "relevance" -> calculate_relevance(Question, Answer, ContextText)
      [] m = "fluency" -> calculate_fluency(Answer)
      [] m = "informativeness" -> calculate_informativeness(Answer)
      [] m = "length_ratio" -> calculate_length_ratio(Answer, ExpectedAnswer)
      [] m = "word_overlap" -> calculate_word_overlap(Answer, ExpectedAnswer)
      [] m = "sentence_similarity" ->
             calculate_sentence_similarity(Answer, ExpectedAnswer)

\* the metrics the specification lists as needing the expected answer
ListedAsGated ==
    {"rouge1", "rouge2", "rougeL", "bleu", "length_ratio", "word_overlap",
     "sentence_similarity"}

\* with the expected answer absent or empty and no scorer failing, every
\* selected catalog metric of the set gated is absent from the result and
\* every other one is present with its scorer's value
GatedExactly(gated) ==
    (EngineReturned /\ ~Truthy(ExpectedAnswer) /\ ~ScorerFailed) =>
        \A m \in SelectedCatalog :
            IF m \in gated
            THEN m \notin DOMAIN Returned
            ELSE m \in DOMAIN Returned /\ Returned[m] = ScorerValue(m)

\* C11 as stated: only ROUGE-1/2/L, BLEU, length-ratio, word-overlap and
\* sentence-similarity are gated on the expected answer; without one (and
\* with no scorer failing) meteor_approx, coherence, relevance, fluency and
\* informativeness, when selected, are present in the result.
C11_OnlyListedMetricsAreGated == GatedExactly(ListedAsGated)

\* C11 amended: meteor_approx is gated on the expected answer as well;
\* without an expected answer (and with no scorer failing) the selected
\* metrics among coherence, relevance, fluency and informativeness are
\* present with their scorer's value and the eight gated ones are absent.
C11_ReferenceMetricsAreGated == GatedExactly(ListedAsGated \cup {"meteor_approx"})

\* C11 witness: a call without expected answer that selected meteor_approx,
\* word_overlap, fluency and relevance returned fluency and relevance alone,
\* with a fluency above 0.
C11_Witness ==
    /\ EngineReturned /\ ~ScorerFailed
    /\ "expected_answer" \notin DOMAIN be_context
    /\ {"meteor_approx", "word_overlap", "fluency", "relevance"} \subseteq SelectedCatalog
    /\ be_selected # List(available_metrics)
    /\ DOMAIN Returned = {"fluency", "relevance"}
    /\ RatLt(Zero, Returned["fluency"])


\* C12: when the scorer of a selected metric raises, that metric is 0.0 and
\* every other selected metric, before or after it in evaluation order, is
\* what it would be without the failure: absent when it is gated and there
\* is no expected answer, its scorer's value otherwise.
C12_ScorerFailureIsIsolated ==
    (EngineReturned /\ ScorerFailed) =>
        /\ "relevance" \in DOMAIN Returned /\ Returned["relevance"] = Zero
        /\ \A m \in SelectedCatalog \ {"relevance"} :
              IF RequiresExpected(IF StartsWithRouge(m) THEN "rouge" ELSE m)
                    /\ ~Truthy(ExpectedAnswer)
              THEN m \notin DOMAIN Returned
              ELSE m \in DOMAIN Returned /\ Returned[m] = ScorerValue(m)


\* the keys of the result of a call on the whole catalog in which no scorer
\* fails
CatalogKeys ==
    { m \in Catalog :
        RequiresExpected(IF StartsWithRouge(m) THEN "rouge" ELSE m) =>
            Truthy(ExpectedAnswer) }

\* C13: a selection of None and a selection of [] both give the result of
\* the full catalog of twelve metrics; the keys of the result of a non-empty
\* selection are names of the selection; and when no scorer fails a selected
\* name outside the catalog has no entry.
C13_SelectionDefaultsToCatalog ==
    EngineReturned =>
        /\ Len(available_metrics) = 12
        /\ be_selected \in {NoneV, List(<<>>)} =>
              /\ Returned = evaluate(be_context, List(available_metrics))
              /\ ~ScorerFailed => DOMAIN Returned = CatalogKeys
        /\ (be_selected.t = "list" /\ be_selected.v # <<>>) =>
              /\ DOMAIN Returned \subseteq SetOf(be_selected.v)
              /\ ~ScorerFailed => DOMAIN Returned \subseteq Catalog

\* C13 witness: a call with the selection [] and an expected answer returned
\* the twelve metrics of the catalog.
C13_Witness ==
    /\ EngineReturned /\ ~ScorerFailed
    /\ be_selected = List(<<>>)
    /\ Truthy(ExpectedAnswer)
    /\ DOMAIN Returned = Catalog
    /\ Cardinality(DOMAIN Returned) = 12
    /\ RatLt(Zero, Returned["rouge1"])

\* C13 witness: a selection with a name outside the catalog returned the
\* selected catalog metrics alone.
C13_WitnessUnknown ==
    /\ EngineReturned
    /\ be_selected = List(<<"rouge1", "coherence", "unknown_metric">>)
    /\ DOMAIN Returned = {"rouge1", "coherence"}

\* the metrics computed from the expected answer
ReferenceMetrics == ListedAsGated \cup {"meteor_approx"}

\* C28: the result of evaluate never contains a reference-requiring metric
\* (rouge1, rouge2, rougeL, bleu, meteor_approx, length_ratio, word_overlap,
\* sentence_similarity) when there is no expected answer, and never contains
\* a name outside the catalog, on every path, the one where a scorer raises
\* and the remaining metrics are defaulted included.
C28_NoReferenceMetricWithoutReferenceAndNoUnknownName ==
    EngineReturned =>
        /\ ~Truthy(ExpectedAnswer) => DOMAIN Returned \cap ReferenceMetrics = {}
        /\ DOMAIN Returned \subseteq Catalog


(***************************************************************************)
(* Properties of the scorers                                               *)
(***************************************************************************)
ScorersReturned == pc = "scorers_returned"
CandidateTokens == tokenize(sc_candidate)
ReferenceTokens == tokenize(sc_reference)
RougeSelf == sc_scores.rouge_self

\* C14 as stated: ROUGE-1, ROUGE-2 and ROUGE-L of every non-empty text
\* against itself are exactly 1.0, texts of a single token included.
C14_RougeOfTextWithItselfIsOne ==
    (ScorersReturned /\ sc_candidate.v # <<>>) =>
        /\ RougeSelf["rouge1"] = One
        /\ RougeSelf["rouge2"] = One
        /\ RougeSelf["rougeL"] = One

\* C14 amended: for every text with at least one token, ROUGE-1 and ROUGE-L
\* of the text against itself are exactly 1.0, and ROUGE-2 is exactly 1.0
\* when the text has at least two tokens and 0.0 when it has a single token
\* (it has no bigram); a text without any token scores 0.0 on all three.
C14_RougeOfTextWithItself ==
    ScorersReturned =>
        IF Len(CandidateTokens) >= 1
        THEN /\ RougeSelf["rouge1"] = One
             /\ RougeSelf["rougeL"] = One
             /\ RougeSelf["rouge2"] = IF Len(CandidateTokens) >= 2 THEN One ELSE Zero
        ELSE \A m \in {"rouge1", "rouge2", "rougeL"} : RougeSelf[m] = Zero

\* C14 witness: a text of two sentences with a repeated word and three
\* distinct bigrams scored 1.0 on all three against itself.
C14_Witness ==
    /\ ScorersReturned
    /\ sc_candidate = Str(<<"the", "However", ".", "the">>)
    /\ \A m \in {"rouge1", "rouge2", "rougeL"} : RougeSelf[m] = One

\* C14 witness: a text of one token scored 1.0, 0.0 and 1.0.
C14_WitnessSingleToken ==
    /\ ScorersReturned
    /\ sc_candidate = Str(<<"However", ".">>)
    /\ RougeSelf = [m \in {"rouge1", "rouge2", "rougeL"} |->
                       IF m = "rouge2" THEN Zero ELSE One]


\* C15: the length ratio is exactly 1.0 whenever candidate and reference
\* have the same number of tokens, both being empty included, and 0.0 when
\* the reference is empty and the candidate is not.
C15_LengthRatioOfEqualLengthsIsOne ==
    ScorersReturned =>
        /\ Len(CandidateTokens) = Len(ReferenceTokens) => sc_scores.length_ratio = One
        /\ (sc_reference.v = <<>> /\ sc_candidate.v # <<>>) =>
              sc_scores.length_ratio = Zero


\* 0 <= x <= 1 for a score: a ratio, or exp(e) * q^(1/4), which lies in
\* (0, 1] exactly when e <= 0 and 0 < q <= 1
InUnitInterval(x) ==
    IF IsRatio(x)
    THEN RatLe(Zero, x) /\ RatLe(x, One)
    ELSE /\ RatLe(Exponent(x), Zero)
         /\ RatLt(Zero, Radicand(x)) /\ RatLe(Radicand(x), One)

\* the names of the scores that the scorers returned
ScoreNames ==
    {"bleu", "meteor_approx", "coherence", "relevance", "relevance_context",
     "fluency", "informativeness", "length_ratio", "word_overlap",
     "word_overlap_swapped", "sentence_similarity"}

\* C16: every score that the twelve scorers of the basic engine produce
\* lies in the closed interval [0, 1].
C16_ScoresLieInUnitInterval ==
    ScorersReturned =>
        /\ \A m \in {"rouge1", "rouge2", "rougeL"} :
              InUnitInterval(sc_scores.rouge[m]) /\ InUnitInterval(RougeSelf[m])
        /\ \A name \in ScoreNames : InUnitInterval(sc_scores[name])

Strictly(x) == RatLt(Zero, x) /\ RatLt(x, One)

\* C16 witness: a candidate of three tokens against a reference of one token
\* (a length ratio of 3) with every overlap score strictly between 0 and 1.
C16_Witness ==
    /\ ScorersReturned
    /\ Len(CandidateTokens) = 3 /\ Len(ReferenceTokens) = 1
    /\ Strictly(sc_scores.length_ratio)
    /\ Strictly(sc_scores.rouge["rouge1"])
    /\ Strictly(sc_scores.rouge["rougeL"])
    /\ Strictly(sc_scores.meteor_approx)
    /\ Strictly(sc_scores.word_overlap)
    /\ Strictly(sc_scores.coherence)
    /\ Strictly(sc_scores.fluency)
    /\ Strictly(sc_scores.informativeness)

\* C16 witness: a BLEU score that is neither 0.0 nor 1.0.
C16_WitnessBleu ==
    /\ ScorersReturned
    /\ ~IsRatio(sc_scores.bleu)
    /\ RatLt(Exponent(sc_scores.bleu), Zero)


\* C17: word overlap is symmetric: the score of (candidate, reference) is
\* the score of (reference, candidate).
C17_WordOverlapIsSymmetric ==
    ScorersReturned => sc_scores.word_overlap = sc_scores.word_overlap_swapped

\* C17 witness: token sets of different sizes that share a word scored the
\* same non-zero overlap both ways.
C17_Witness ==
    /\ ScorersReturned
    /\ Cardinality(SetOf(CandidateTokens)) = 2
    /\ Cardinality(SetOf(ReferenceTokens)) = 1
    /\ sc_scores.word_overlap = Rat(1, 2)
    /\ sc_scores.word_overlap_swapped = Rat(1, 2)

\* C18: word overlap is the Jaccard index of the two token sets, the size of
\* the intersection over the size of the union; it is 1.0 when both token
\* sets are empty and 0.0 when exactly one of them is.
C18_WordOverlapIsJaccard ==
    ScorersReturned =>
        LET a == SetOf(CandidateTokens)
            b == SetOf(ReferenceTokens)
            score == sc_scores.word_overlap
        IN IF a = {} /\ b = {} THEN score = One
           ELSE IF a = {} \/ b = {} THEN score = Zero
           ELSE score[1] * Cardinality(a \cup b) = Cardinality(a \cap b) * score[2]

\* C18 witness: the token sets {the, however} and {the, dog} scored 1/3.
C18_Witness ==
    /\ ScorersReturned
    /\ SetOf(CandidateTokens) = {"the", "however"}
    /\ SetOf(ReferenceTokens) = {"the", "dog"}
    /\ sc_scores.word_overlap = Rat(1, 3)

\* C18 witness: both token sets empty, in two texts that are not both empty.
C18_WitnessEmpty ==
    /\ ScorersReturned
    /\ sc_candidate = Str(<<".">>) /\ sc_reference = Str(<<>>)
    /\ sc_scores.word_overlap = One


\* a BLEU score above 0.0
BleuIsPositive(x) == IF IsRatio(x) THEN RatLt(Zero, x) ELSE RatLt(Zero, Radicand(x))

\* the four clipped n-gram precisions of the candidate against the reference
ClippedPrecisions == BleuPrecisions(CandidateTokens, ReferenceTokens)

\* C19: BLEU is 0.0 whenever the candidate has fewer than 4 tokens, whenever
\* one of the four clipped n-gram precisions is 0, and whenever candidate or
\* reference is empty; it is positive only when all four precisions are
\* positive.
C19_BleuIsZeroWithoutAllFourPrecisions ==
    ScorersReturned =>
        /\ Len(CandidateTokens) < 4 => sc_scores.bleu = Zero
        /\ (CandidateTokens = <<>> \/ ReferenceTokens = <<>>) => sc_scores.bleu = Zero
        /\ (\E n \in 1..4 : ClippedPrecisions[n] = Zero) => sc_scores.bleu = Zero
        /\ BleuIsPositive(sc_scores.bleu) =>
              /\ CandidateTokens # <<>> /\ ReferenceTokens # <<>>
              /\ \A n \in 1..4 : RatLt(Zero, ClippedPrecisions[n])

\* C19 witness: a candidate of three tokens, all of them in the reference in
\* the same order, scored 0.0: it has no 4-gram.
C19_Witness ==
    /\ ScorersReturned
    /\ CandidateTokens = <<"the", "the", "the">>
    /\ ReferenceTokens = <<"the", "the", "the", "the", "the">>
    /\ ClippedPrecisions = <<One, One, One, Zero>>
    /\ sc_scores.bleu = Zero

\* C19 witness: a candidate of four tokens whose four precisions are
\* positive scored above 0.0, below 1.0 by the brevity penalty.
C19_WitnessPositive ==
    /\ ScorersReturned
    /\ Len(CandidateTokens) = 4 /\ Len(ReferenceTokens) = 5
    /\ \A n \in 1..4 : ClippedPrecisions[n] = One
    /\ BleuIsPositive(sc_scores.bleu) /\ ~IsRatio(sc_scores.bleu)

\* C19 witness: a candidate of four tokens with positive 1-, 2- and 3-gram
\* precisions and no 4-gram of the reference scored 0.0.
C19_WitnessZeroPrecision ==
    /\ ScorersReturned
    /\ Len(CandidateTokens) = 4
    /\ \A n \in 1..3 : RatLt(Zero, ClippedPrecisions[n])
    /\ ClippedPrecisions[4] = Zero
    /\ sc_scores.bleu = Zero


(***************************************************************************)
(* Properties of the progress reports of evaluate_bulk                     *)
(***************************************************************************)
\* ceil(k / size)
CeilDiv(k, size) == (k + size - 1) \div size

\* C20: a progress callback that succeeds is called exactly once after each
\* batch, once the records of that batch are appended: ceil(k / batch_size)
\* times for k > 0 items and never for k = 0, with processed =
\* min(batch start + batch_size, k), total = k and percentage =
\* 100 * processed / k; processed increases strictly from call to call, never
\* exceeds k, and the last call reports processed = k and 100%.
C20_ProgressReportedOncePerBatch ==
    progress_callback = "async_ok" =>
        LET k == Len(evaluations) IN
        /\ \A j \in DOMAIN progress_calls :
              LET call == progress_calls[j] IN
              /\ call.processed = Min((j - 1) * batch_size + batch_size, k)
              /\ call.total = k
              /\ call.progress[1] * k = 100 * call.processed * call.progress[2]
              /\ call.recorded = call.processed
              /\ call.processed <= k
              /\ j > 1 => progress_calls[j - 1].processed < call.processed
        /\ pc = "bulk_loop" => Len(progress_calls) * batch_size = batch_i
        /\ BulkReturned =>
              /\ Len(progress_calls) = CeilDiv(k, batch_size)
              /\ k = 0 => progress_calls = <<>>
              /\ k > 0 =>
                    LET last == progress_calls[Len(progress_calls)] IN
                    /\ last.processed = k
                    /\ last.progress[1] = 100 * last.progress[2]

\* C20 witness: three items in batches of two with a callback that succeeds:
\* two calls, (2, 3, 66.7%) after two records and (3, 3, 100%) after three.
C20_Witness ==
    /\ BulkReturned
    /\ progress_callback = "async_ok"
    /\ Len(evaluations) = 3 /\ batch_size = 2
    /\ Len(progress_calls) = 2
    /\ progress_calls[1].processed = 2 /\ progress_calls[1].recorded = 2
    /\ FracEq(progress_calls[1].progress, <<200, 3>>)
    /\ progress_calls[2].processed = 3 /\ progress_calls[2].recorded = 3
    /\ FracEq(progress_calls[2].progress, <<100, 1>>)

(***************************************************************************)
(* the batching of evaluate_bulk                                           *)
(***************************************************************************)
InFlight == { k \in DOMAIN bulk_tasks : bulk_tasks[k] = Running }
Started == { k \in DOMAIN bulk_tasks : bulk_tasks[k] # NotStarted }
Finished == { k \in DOMAIN bulk_tasks : bulk_tasks[k].st = "done" }

\* the number of the batch item k falls in, when the items are cut into
\* consecutive batches of batch_size
BatchOf(k) == (k - 1) \div batch_size

\* C21: evaluate_bulk works through the items in consecutive batches of
\* batch_size: at every moment at most batch_size evaluate_single calls are
\* in flight, the calls in flight belong to one batch, and no item of a
\* batch is started before every item of every earlier batch has finished.
C21_BatchesRunOneAfterAnother ==
    /\ Cardinality(InFlight) <= batch_size
    /\ \A k \in InFlight, m \in InFlight : BatchOf(k) = BatchOf(m)
    /\ \A k \in Started, m \in DOMAIN bulk_tasks :
          BatchOf(m) < BatchOf(k) => m \in Finished
    /\ \A k \in Started, m \in DOMAIN bulk_tasks :
          BatchOf(m) = BatchOf(k) => m \in Started

\* C21 witness: three items in batches of two: the first batch is in flight
\* with one call finished and one running, and the third item is not started.
C21_Witness ==
    /\ Len(evaluations) = 3 /\ batch_size = 2
    /\ bulk_tasks[1] = Running
    /\ bulk_tasks[2].st = "done"
    /\ bulk_tasks[3] = NotStarted

\* C21 witness: the second batch is started once the first has finished.
C21_WitnessSecondBatch ==
    /\ Len(evaluations) = 3 /\ batch_size = 2
    /\ {1, 2} \subseteq Finished
    /\ bulk_tasks[3] = Running

(***************************************************************************)
(* Properties of the registry                                              *)
(***************************************************************************)
InFlightCalls == { c \in DOMAIN calls : calls[c].st = "running" }

C22_WitnessRaised ==
    /\ evaluators # <<>>
    /\ \E c1 \in DOMAIN calls, c2 \in InFlightCalls :
          /\ calls[c1].op = "evaluate_single"
          /\ calls[c1].st = "raised"
          /\ \E i \in DOMAIN calls[c2].runs : calls[c2].runs[i].st = "ended"

Constructed == pc = "constructed"
Registered(f) == \E i \in DOMAIN evaluators : evaluators[i] = f

\* C23: after construction the registry contains 'basic', and each optional
\* framework is registered exactly when its flag is enabled and its loading
\* succeeds; a disabled flag or a failed load of one framework never keeps
\* 'basic' or another enabled framework out of the registry.
C23_RegistryHoldsBasicAndEveryLoadedFramework ==
    Constructed =>
        /\ Registered("basic")
        /\ \A f \in OptionalNames : Registered(f) <=> (enable_flags[f] /\ import_ok[f])

(***************************************************************************)
(* Properties of _calculate_lcs_f1                                         *)
(***************************************************************************)
LcsReturned == pc = "lcs_returned"

RECURSIVE IsSubsequence(_, _)
\* s can be had from y by deleting tokens
IsSubsequence(s, y) ==
    IF s = <<>> THEN TRUE
    ELSE IF y = <<>> THEN FALSE
    ELSE IF Head(s) = Head(y) THEN IsSubsequence(Tail(s), Tail(y))
    ELSE IsSubsequence(s, Tail(y))

\* the tokens of x at the positions of chosen, in order
Pick(x, chosen) ==
    LET indexes == SelectSeq([i \in 1..Len(x) |-> i], LAMBDA i : i \in chosen)
    IN [j \in 1..Len(indexes) |-> x[indexes[j]]]

\* the length of a longest common subsequence, by trying every subsequence
\* of x
LongestCommon(x, y) ==
    LET lengths == { Cardinality(chosen) : chosen \in
                        { c \in SUBSET (1..Len(x)) : IsSubsequence(Pick(x, c), y) } }
    IN CHOOSE l \in lengths : \A other \in lengths : other <= l

\* C24: the dynamic programme returns the length of a longest common
\* subsequence of the two token lists (the length found by trying every
\* subsequence), and ROUGE-L is the harmonic mean of LCS / |candidate| and
\* LCS / |reference|, which is 2 * LCS / (|candidate| + |reference|); it is
\* 0 when either list is empty or no token is common.
C24_RougeLIsHarmonicMeanOfLcsRatios ==
    LcsReturned =>
        LET x == tokenize(sc_candidate)
            y == tokenize(sc_reference)
            longest == LongestCommon(x, y)
        IN /\ sc_scores.lcs_len = longest
           /\ sc_scores.rougeL =
                 IF x = <<>> \/ y = <<>> \/ longest = 0 THEN Zero
                 ELSE Rat(2 * longest, Len(x) + Len(y))
           /\ (x # <<>> /\ y # <<>> /\ longest > 0) =>
                 LET precision == Rat(longest, Len(x))
                     recall == Rat(longest, Len(y))
                 IN RatMul(sc_scores.rougeL, RatAdd(precision, recall))
                        = RatMul(Rat(2, 1), RatMul(precision, recall))

\* C24 witness: "the dog the" against "dog dog the": the two lists share both
\* words, a longest common subsequence is "dog the" (length 2) and ROUGE-L
\* is 2/3.
C24_Witness ==
    /\ LcsReturned
    /\ sc_candidate = Str(<<"the", "dog", "the">>)
    /\ sc_reference = Str(<<"dog", "dog", "the">>)
    /\ sc_scores.lcs_len = 2
    /\ sc_scores.rougeL = Rat(2, 3)

\* C24 witness: lists without a common token score 0.
C24_WitnessNothingCommon ==
    /\ LcsReturned
    /\ sc_candidate = Str(<<"the", "the">>)
    /\ sc_reference = Str(<<"dog">>)
    /\ sc_scores.lcs_len = 0
    /\ sc_scores.rougeL = Zero

(***************************************************************************)
(* Properties of evaluate_bulk with a failing progress callback            *)
(***************************************************************************)
\* C25: if the progress callback raises after a batch, or is a plain
\* function whose return value cannot be awaited, evaluate_bulk still
\* returns exactly one record per input item, in input order: the item's own
\* result, or its error record if its evaluation failed; no recorded result
\* is duplicated or replaced by an error record.
C25_CallbackFailureKeepsOneRecordPerItem ==
    (BulkReturned /\ CallbackRaises(progress_callback)) =>
        /\ Len(bulk_return.v) = Len(evaluations)
        /\ \A k \in DOMAIN evaluations :
              /\ ItemOfRecord(bulk_return.v[k]) = evaluations[k]
              /\ bulk_return.v[k] =
                    IF k \in FailedItems
                    THEN ErrorRecord(k - 1, bulk_tasks[k].result, evaluations[k])
                    ELSE bulk_tasks[k].result

(***************************************************************************)
(* Properties of the record ids                                            *)
(***************************************************************************)
\* C26: the ids of the records returned by evaluations that run
\* concurrently are pairwise distinct, even when several of them complete
\* within the same millisecond of the clock.
C26_ConcurrentRecordIdsAreDistinct ==
    pc = "ids_returned" =>
        \A i \in DOMAIN id_return.v, j \in DOMAIN id_return.v :
            i # j => id_return.v[i].id # id_return.v[j].id

(***************************************************************************)
(* Properties of the session's evaluation count                            *)
(***************************************************************************)
AllAnswered ==
    \A r \in DOMAIN requests : Answered(requests[r]) /\ ~requests[r].tx

\* C27: after any interleaving of concurrent create and delete requests on
\* one session, the session's stored evaluation_count is the number of
\* evaluations stored for the session and is never negative.
C27_EvaluationCountIsNumberOfStoredEvaluations ==
    /\ db_count >= 0
    /\ (pc = "serving" /\ AllAnswered /\ db_session) =>
           db_count = Cardinality(db_evaluations)

=============================================================================
